---- MODULE Spec2Model ----
(***************************************************************************)
(* Verification model of hf-utils-rtos-wrap.                               *)
(*                                                                         *)
(* Part 1: BaseThread (the worker life cycle driven by ThreadEntry and the *)
(*         Start()/Stop()/Suspend()/Resume() calls of other threads).      *)
(* Part 2: EventDrivenDataMultiThread (the value channel of                *)
(*         SignalSemaphore.h) used by several threads at once.             *)
(* Part 3: ErrorSaver (the status tracker of ErrorSaver.h; FlagsSaver is   *)
(*         the same code over flags) used by several threads at once.      *)
(***************************************************************************)
EXTENDS Integers, Sequences, FiniteSets, TLC

(***************************************************************************)
(* Bounds of the exploration.                                              *)
(***************************************************************************)
\* number of Start()/Stop()/Suspend()/Resume() calls explored
MaxCalls == 4
\* number of Step() executions explored in one start-to-stop cycle
MaxSteps == 2

\* number of calls of the value channel explored
MaxChanCalls == 3
\* the count at which xSemaphoreGive refuses a further signal (it stands for
\* the UINT16_MAX of xSemaphoreCreateCounting)
SemaphoreCeiling == 3
\* the longest timeout given to the verification helpers, in milliseconds (it
\* stands for the 200 ms of the stop scenario)
MaxTimeout == 20
\* number of calls of the status tracker explored
\* MutexGuard objects constructed
MaxGuards == 3
\* OS threads the kernel can create for one worker
MaxTasks == 2
\* calls of OsQueue and OsEventFlags explored
MaxWrapCalls == 4
\* the longest finite wait_option given to Receive and Get, in ticks
MaxWait == 2

MaxSaverCalls == 3
\* the tick counter wraps at this value (it stands for 2^32)
ClockModulus == 2

(***************************************************************************)
(* Constants of the program.                                               *)
(***************************************************************************)
\* static_cast<uint16_t>( waitBeforeStep ) in ThreadEntry
Uint16Modulus == 65536

\* the check interval StartThreadAndWaitToVerify and
\* StopThreadAndWaitToVerify give to TestLogicWithTimeout
CheckIntervalMs == 10

\* the options of os_event_group_get()
OS_AND == 1
OS_OR == 2

\* threads that call the public interface of the worker
Controllers == {"c1", "c2"}

\* threads that use the value channel
Threads == {"t1", "t2"}
\* nullptr as an owner thread, and the holder of a free mutex
NoThread == "none"
\* values carried by the channel; Indeterminate is the content of the data
\* member before the first SetData() (the constructor does not initialise it)
Values == {1, 2}
Indeterminate == 0

\* the errors tracked by the ErrorSaver and the statuses of an error
ErrorTypes == {"e1", "e2"}
ErrorStatuses == {"Unknown", "Set", "Cleared", "Ignored"}

\* wait budgets, in ticks, given to GetNewData()
WaitTimes == {0, 1}

\* values Step() may return (milliseconds to wait before the next Step())
StepDelays == {0, 2, 65537}

VARIABLES
    \* ---- BaseThread ----
    pc,                  \* position of the worker inside ThreadEntry
    threadRunning,       \* std::atomic<bool> threadRunning
    threadStepInDelay,   \* std::atomic<bool> threadStepInDelay
    setupComplete,       \* std::atomic<bool> setupComplete
    cleanupComplete,     \* std::atomic<bool> cleanupComplete
    stopThreadRequested, \* std::atomic<bool> stopThreadRequested
    waitBeforeStep,      \* uint32_t waitBeforeStep
    semaphore,           \* count of signalSemaphore (the start signal)
    threadState,         \* OS state of the worker: "ready", "sleep", "suspended"
    sleepTicks,          \* ticks left of the worker's current sleep
    cpc,                 \* position of every controller inside its call
    cret,                \* value returned by the last call of every controller
    calls,               \* number of calls begun by the controllers
    clast,               \* what the last call of every controller was and did
    startRequested,      \* Start() has been called at least once
    \* ---- history of the current cycle of the worker ----
    startConsumed,       \* the start signal of this cycle has been taken
    stopObserved,        \* the Step loop has read stopThreadRequested = true
    setupRuns,           \* Setup() executions in this cycle
    stepRuns,            \* Step() executions in this cycle
    cleanupRuns,         \* Cleanup() executions in this cycle
    cycles,              \* completed start-to-stop cycles
    stepTrace,           \* what held when the last Step() ran
    stopInDelay,         \* Stop() returned while the worker was sleeping in TxDelayMsec
    nonZeroStep,         \* some Step() has returned a delay other than 0
    \* ---- EventDrivenDataMultiThread ----
    initialized,             \* bool initialized
    eventFlagGroupCreated,   \* bool eventFlagGroupCreated
    mutexCreated,            \* bool mutexCreated
    dataAvailable,           \* DATA_AVAILABLE_FLAG in dataAvailableFlagGroup
    mutex,                   \* thread that holds TX_MUTEX mutex, or NoThread
    dataSetterOwnerThread,   \* TX_THREAD* dataSetterOwnerThread
    dataGetterOwnerThread,   \* TX_THREAD* dataGetterOwnerThread
    data,                    \* DataType data
    dataTimestamp,           \* uint32_t dataTimestamp
    now,                     \* GetElapsedTimeMsec(), the tick counter
    th,                      \* every thread's position and locals inside its call
    res,                     \* what the call that returned last has returned
    chanCalls,               \* number of calls begun
    \* ---- history of the channel ----
    created,                 \* the OS object of the resource has been created
    lastSetValue,            \* value of the SetData() that completed last
    pendingSets,             \* a SetData() completed and no GetNewData() began since
    getSinceSet,             \* a GetNewData() returned and no SetData() ran since
    \* ---- ErrorSaver ----
    saverInitialized,        \* bool initialized
    saverFlagGroupCreated,   \* bool eventFlagGroupCreated
    errorStatus,             \* EnumeratedSetStatus errorStatus
    newActivity,             \* DATA_AVAILABLE_FLAG in dataAvailableFlagGroup
    saverMutex,              \* thread that holds Mutex mutex, or NoThread
    saverSetterOwnerThread,  \* TX_THREAD* dataSetterOwnerThread
    saverGetterOwnerThread,  \* TX_THREAD* dataGetterOwnerThread
    sth,                     \* every thread's position and locals inside its call
    sres,                    \* what the call that returned last has returned
    saverCalls,              \* number of calls begun
    prevCall,                \* the write that returned last, if no call began since
    owed,                    \* wait time left of a GetNewErrorActivity() that returned false early
    missed,                  \* a signal was raised within the wait time of such a call
    saverAlive,              \* the ErrorSaver has not been destroyed
    saverEventFlags,         \* the event flag group the ErrorSaver created exists in the OS
    \* ---- MutexGuard over an OS_Mutex and over a Mutex ----
    osMutex,                 \* thread that holds the OS_Mutex given by handle, or NoThread
    wrapper,                 \* Mutex: bool initialized and the OS_Mutex mutex it made last (0: none)
    holder,                  \* for every OS_Mutex a Mutex has made, the thread that holds it
    gd,                      \* every thread's MutexGuard: position, source, *pSuccess
    guards,                  \* number of MutexGuard objects constructed
    \* ---- CreateBaseThread ----
    osThreadCreated,         \* bool osThreadCreated (txThreadCreated)
    tasks,                   \* position in ThreadEntry of every OS thread made for the worker
    \* ---- OsQueue, OsEventFlags ----
    wmtx,                    \* OS_Mutex mtx of each wrapper: the thread that holds it
    stored,                  \* messages in the queue; 1 when the requested flags are set in the group
    wth,                     \* every thread's position and arguments inside Send/Receive/Set/Get
    wres,                    \* what the call that returned last returned
    wrapCalls,               \* number of calls made
    \* ---- StartThreadAndWaitToVerify / StopThreadAndWaitToVerify ----
    vfy                      \* every controller's position and locals inside the helper

workerVars == << pc, threadRunning, threadStepInDelay, setupComplete,
                 cleanupComplete, stopThreadRequested, waitBeforeStep,
                 semaphore, threadState, sleepTicks, cpc, cret, calls, clast,
                 startRequested, startConsumed, stopObserved, setupRuns,
                 stepRuns, cleanupRuns, cycles, stepTrace, stopInDelay,
                 nonZeroStep >>

chanVars == << initialized, eventFlagGroupCreated, mutexCreated, dataAvailable,
               mutex, dataSetterOwnerThread, dataGetterOwnerThread, data,
               dataTimestamp, now, th, res, chanCalls, created, lastSetValue,
               pendingSets, getSinceSet >>

saverVars == << saverInitialized, saverFlagGroupCreated, errorStatus,
                newActivity, saverMutex, saverSetterOwnerThread,
                saverGetterOwnerThread, sth, sres, saverCalls, prevCall, owed,
                missed, saverAlive, saverEventFlags >>

guardVars == << osMutex, wrapper, holder, gd, guards >>

createVars == << osThreadCreated, tasks >>

wrapVars == << wmtx, stored, wth, wres, wrapCalls >>

verifyVars == << vfy >>

\* the value channel, the status tracker, the mutexes and the OS threads
otherObjects == << chanVars, saverVars, guardVars, createVars, wrapVars >>
\* the state of everything but the worker
notWorker == << otherObjects, verifyVars >>
\* the state of everything but the value channel
notChannel == << workerVars, saverVars, guardVars, createVars, wrapVars,
                verifyVars >>
\* the state of everything but the status tracker
notSaver == << workerVars, chanVars, guardVars, createVars, wrapVars,
              verifyVars >>
\* the state of everything but the mutexes
notGuard == << workerVars, chanVars, saverVars, createVars, wrapVars,
              verifyVars >>
\* the state of everything but the worker and its OS threads
notTasks == << chanVars, saverVars, guardVars, wrapVars, verifyVars >>
\* the state of everything but the queue and the event flags
notWrappers == << workerVars, chanVars, saverVars, guardVars, createVars,
                 verifyVars >>

vars == << workerVars, chanVars, saverVars, guardVars, createVars, wrapVars,
          verifyVars >>

\* a controller that has made no call yet; hook is what StartAction()
\* returned and put what became of the signal, where the call got that far;
\* afterStart tells of a Stop() that it began after a Start() had returned true
NoCallYet == [op |-> "none", running |-> FALSE, hook |-> "none", put |-> "none",
              afterStart |-> FALSE]

NoTrace == [ran |-> FALSE, started |-> FALSE, stopSeen |-> FALSE, cleaning |-> FALSE]

\* BaseThread::BaseThread, followed by a successful CreateBaseThread():
\* the thread exists and is about to enter ThreadEntry.
InitWorker ==
    /\ pc = "ClearThreadRunning"
    /\ threadRunning = FALSE
    /\ threadStepInDelay = FALSE
    /\ setupComplete = FALSE
    /\ cleanupComplete = FALSE
    /\ stopThreadRequested = FALSE
    /\ waitBeforeStep = 0
    /\ semaphore = 0
    /\ threadState = "ready"
    /\ sleepTicks = 0
    /\ cpc = [c \in Controllers |-> "idle"]
    /\ cret = [c \in Controllers |-> TRUE]
    /\ calls = 0
    /\ clast = [c \in Controllers |-> NoCallYet]
    /\ startRequested = FALSE
    /\ startConsumed = FALSE
    /\ stopObserved = FALSE
    /\ setupRuns = 0
    /\ stepRuns = 0
    /\ cleanupRuns = 0
    /\ cycles = 0
    /\ stepTrace = NoTrace
    /\ stopInDelay = FALSE
    /\ nonZeroStep = FALSE

ctlVars == << cpc, cret, calls, clast, startRequested >>
flagVars == << threadRunning, threadStepInDelay, setupComplete, cleanupComplete,
               stopThreadRequested >>
histVars == << startConsumed, stopObserved, setupRuns, stepRuns, cleanupRuns,
               cycles, stepTrace, stopInDelay, nonZeroStep >>

\* the worker is inside while( !IsThreadStopRequested() )
InStepLoop == pc \in {"IsThreadStopRequested", "Step", "MarkThreadStepInDelay",
                      "TxDelayMsec", "ClearThreadStepInDelay"}

\* bool IsThreadStopped() const noexcept { return !threadRunning; }
IsThreadStopped == ~threadRunning

\* the worker executes code only while the scheduler may run it
Runnable == threadState = "ready"

(***************************************************************************)
(* BaseThread::ThreadEntry, one action per statement that other threads    *)
(* can observe.                                                            *)
(***************************************************************************)
\* thread->ClearThreadRunning() at the top of while( true )
ClearThreadRunning ==
    /\ Runnable /\ pc = "ClearThreadRunning"
    /\ threadRunning' = FALSE
    /\ pc' = "WaitForStart"
    /\ startConsumed' = FALSE /\ stopObserved' = FALSE
    /\ setupRuns' = 0 /\ stepRuns' = 0 /\ cleanupRuns' = 0
    /\ UNCHANGED << threadStepInDelay, setupComplete, cleanupComplete,
                    stopThreadRequested, waitBeforeStep, semaphore, threadState,
                    sleepTicks, ctlVars, cycles, stepTrace, stopInDelay,
                    nonZeroStep >>
    /\ UNCHANGED notWorker

\* WaitForStart() that returns although no start signal is there
WaitForStartUnsignalled ==
    /\ Runnable /\ pc = "WaitForStart"
    /\ semaphore' = IF semaphore > 0 THEN semaphore - 1 ELSE 0
    /\ startConsumed' = (semaphore > 0)
    /\ pc' = "MarkThreadRunning"
    /\ UNCHANGED << flagVars, waitBeforeStep, threadState, sleepTicks, ctlVars,
                    stopObserved, setupRuns, stepRuns, cleanupRuns, cycles,
                    stepTrace, stopInDelay,
                    nonZeroStep >>
    /\ UNCHANGED notWorker

\* thread->WaitForStart(): signalSemaphore.WaitUntilSignalled() with
\* OS_WAIT_FOREVER takes one count of the semaphore, blocking while it is 0;
\* thread->ResetVariables() follows and touches nothing of the base class
WaitForStart ==
    /\ Runnable /\ pc = "WaitForStart"
    /\ semaphore > 0
    /\ semaphore' = semaphore - 1
    /\ startConsumed' = TRUE
    /\ pc' = "MarkThreadRunning"
    /\ UNCHANGED << flagVars, waitBeforeStep, threadState, sleepTicks, ctlVars,
                    stopObserved, setupRuns, stepRuns, cleanupRuns, cycles,
                    stepTrace, stopInDelay,
                    nonZeroStep >>
    /\ UNCHANGED notWorker

\* thread->MarkThreadRunning()
MarkThreadRunning ==
    /\ Runnable /\ pc = "MarkThreadRunning"
    /\ threadRunning' = TRUE
    /\ pc' = "ClearThreadStopRequested"
    /\ UNCHANGED << threadStepInDelay, setupComplete, cleanupComplete,
                    stopThreadRequested, waitBeforeStep, semaphore, threadState,
                    sleepTicks, ctlVars, histVars >>
    /\ UNCHANGED notWorker

\* thread->ClearThreadStopRequested()
ClearThreadStopRequested ==
    /\ Runnable /\ pc = "ClearThreadStopRequested"
    /\ stopThreadRequested' = FALSE
    /\ pc' = "ClearCleanupComplete"
    /\ UNCHANGED << threadRunning, threadStepInDelay, setupComplete,
                    cleanupComplete, waitBeforeStep, semaphore, threadState,
                    sleepTicks, ctlVars, histVars >>
    /\ UNCHANGED notWorker

\* thread->ClearCleanupComplete()
ClearCleanupComplete ==
    /\ Runnable /\ pc = "ClearCleanupComplete"
    /\ cleanupComplete' = FALSE
    /\ pc' = "Setup"
    /\ UNCHANGED << threadRunning, threadStepInDelay, setupComplete,
                    stopThreadRequested, waitBeforeStep, semaphore, threadState,
                    sleepTicks, ctlVars, histVars >>
    /\ UNCHANGED notWorker

\* if( !IsSetupComplete() ) { Setup(); MarkSetupComplete(); }
Setup ==
    /\ Runnable /\ pc = "Setup"
    /\ IF ~setupComplete
          THEN setupRuns' = setupRuns + 1 /\ setupComplete' = TRUE
          ELSE UNCHANGED << setupRuns, setupComplete >>
    /\ pc' = "IsThreadStopRequested"
    /\ UNCHANGED << threadRunning, threadStepInDelay, cleanupComplete,
                    stopThreadRequested, waitBeforeStep, semaphore, threadState,
                    sleepTicks, ctlVars, startConsumed, stopObserved, stepRuns,
                    cleanupRuns, cycles, stepTrace, stopInDelay,
                    nonZeroStep >>
    /\ UNCHANGED notWorker

\* while( !thread->IsThreadStopRequested() )
IsThreadStopRequested ==
    /\ Runnable /\ pc = "IsThreadStopRequested"
    /\ IF stopThreadRequested
          THEN pc' = "Cleanup" /\ stopObserved' = TRUE
          ELSE pc' = "Step" /\ UNCHANGED stopObserved
    /\ UNCHANGED << flagVars, waitBeforeStep, semaphore, threadState, sleepTicks,
                    ctlVars, startConsumed, setupRuns, stepRuns, cleanupRuns,
                    cycles, stepTrace, stopInDelay,
                    nonZeroStep >>
    /\ UNCHANGED notWorker

\* thread->waitBeforeStep = thread->Step()
Step ==
    /\ Runnable /\ pc = "Step"
    /\ stepRuns < MaxSteps
    /\ \E d \in StepDelays : /\ waitBeforeStep' = d
                            /\ nonZeroStep' = (nonZeroStep \/ d # 0)
    /\ stepRuns' = stepRuns + 1
    /\ stepTrace' = [ran |-> TRUE, started |-> startConsumed,
                     stopSeen |-> stopObserved, cleaning |-> cleanupRuns > 0]
    /\ pc' = "MarkThreadStepInDelay"
    /\ UNCHANGED << flagVars, semaphore, threadState, sleepTicks, ctlVars,
                    startConsumed, stopObserved, setupRuns, cleanupRuns, cycles,
                    stopInDelay >>
    /\ UNCHANGED notWorker

\* thread->MarkThreadStepInDelay()
MarkThreadStepInDelay ==
    /\ Runnable /\ pc = "MarkThreadStepInDelay"
    /\ threadStepInDelay' = TRUE
    /\ pc' = "TxDelayMsec"
    /\ UNCHANGED << threadRunning, setupComplete, cleanupComplete,
                    stopThreadRequested, waitBeforeStep, semaphore, threadState,
                    sleepTicks, ctlVars, histVars >>
    /\ UNCHANGED notWorker

\* TxDelayMsec( static_cast<uint16_t>( thread->waitBeforeStep ) ):
\* tx_thread_sleep( ticks ) puts the thread to sleep for the ticks (one tick
\* per millisecond); a sleep of 0 ticks returns at once
TxDelayMsec ==
    /\ Runnable /\ pc = "TxDelayMsec"
    /\ LET ticks == waitBeforeStep % Uint16Modulus
       IN  IF ticks > 0
              THEN threadState' = "sleep" /\ sleepTicks' = ticks
              ELSE UNCHANGED << threadState, sleepTicks >>
    /\ pc' = "ClearThreadStepInDelay"
    /\ stopInDelay' = FALSE
    /\ UNCHANGED << flagVars, waitBeforeStep, semaphore, ctlVars, startConsumed,
                    stopObserved, setupRuns, stepRuns, cleanupRuns, cycles,
                    stepTrace, nonZeroStep >>
    /\ UNCHANGED notWorker

\* thread->ClearThreadStepInDelay()
ClearThreadStepInDelay ==
    /\ Runnable /\ pc = "ClearThreadStepInDelay"
    /\ threadStepInDelay' = FALSE
    /\ pc' = "IsThreadStopRequested"
    /\ stopInDelay' = FALSE
    /\ UNCHANGED << threadRunning, setupComplete, cleanupComplete,
                    stopThreadRequested, waitBeforeStep, semaphore, threadState,
                    sleepTicks, ctlVars, startConsumed, stopObserved, setupRuns,
                    stepRuns, cleanupRuns, cycles, stepTrace,
                    nonZeroStep >>
    /\ UNCHANGED notWorker

\* if( !IsCleanupComplete() ) { Cleanup(); MarkCleanupComplete(); }
Cleanup ==
    /\ Runnable /\ pc = "Cleanup"
    /\ IF ~cleanupComplete
          THEN cleanupRuns' = cleanupRuns + 1 /\ cleanupComplete' = TRUE
          ELSE UNCHANGED << cleanupRuns, cleanupComplete >>
    /\ pc' = "ClearSetupComplete"
    /\ UNCHANGED << threadRunning, threadStepInDelay, setupComplete,
                    stopThreadRequested, waitBeforeStep, semaphore, threadState,
                    sleepTicks, ctlVars, startConsumed, stopObserved, setupRuns,
                    stepRuns, cycles, stepTrace, stopInDelay,
                    nonZeroStep >>
    /\ UNCHANGED notWorker

\* a cycle that ends without ClearSetupComplete()
ClearSetupCompleteOmitted ==
    /\ Runnable /\ pc = "ClearSetupComplete"
    /\ pc' = "ClearThreadRunning"
    /\ cycles' = cycles + 1
    /\ UNCHANGED << flagVars, waitBeforeStep, semaphore, threadState,
                    sleepTicks, ctlVars, startConsumed, stopObserved, setupRuns,
                    stepRuns, cleanupRuns, stepTrace, stopInDelay,
                    nonZeroStep >>
    /\ UNCHANGED notWorker

\* thread->ClearSetupComplete(), the last statement of the cycle
ClearSetupComplete ==
    /\ Runnable /\ pc = "ClearSetupComplete"
    /\ setupComplete' = FALSE
    /\ pc' = "ClearThreadRunning"
    /\ cycles' = cycles + 1
    /\ UNCHANGED << threadRunning, threadStepInDelay, cleanupComplete,
                    stopThreadRequested, waitBeforeStep, semaphore, threadState,
                    sleepTicks, ctlVars, startConsumed, stopObserved, setupRuns,
                    stepRuns, cleanupRuns, stepTrace, stopInDelay,
                    nonZeroStep >>
    /\ UNCHANGED notWorker

\* the tick of the OS timer: a sleeping worker wakes when its ticks are over
Tick ==
    /\ threadState = "sleep"
    /\ sleepTicks' = sleepTicks - 1
    /\ threadState' = IF sleepTicks = 1 THEN "ready" ELSE "sleep"
    /\ UNCHANGED << pc, flagVars, waitBeforeStep, semaphore, ctlVars, histVars >>
    /\ UNCHANGED notWorker

(***************************************************************************)
(* The public interface of BaseThread, called by the controllers.          *)
(***************************************************************************)
\* Start() that goes on to StartAction() whether or not the worker runs
StartWithoutTest(c) ==
    /\ cpc[c] = "idle"
    /\ calls < MaxCalls
    /\ calls' = calls + 1
    /\ cpc' = [cpc EXCEPT ![c] = "Signal"] /\ UNCHANGED cret
    /\ clast' = [clast EXCEPT ![c] = [NoCallYet EXCEPT !.op = "Start",
                                                       !.running = threadRunning]]
    /\ startRequested' = TRUE
    /\ UNCHANGED << pc, flagVars, waitBeforeStep, semaphore, threadState,
                    sleepTicks, histVars >>
    /\ UNCHANGED otherObjects

\* BaseThread::Start(): if( IsThreadRunning() ) return true;
Start(c) ==
    /\ cpc[c] = "idle"
    /\ calls < MaxCalls
    /\ calls' = calls + 1
    /\ IF threadRunning
          THEN cret' = [cret EXCEPT ![c] = TRUE] /\ UNCHANGED cpc
          ELSE cpc' = [cpc EXCEPT ![c] = "Signal"] /\ UNCHANGED cret
    /\ clast' = [clast EXCEPT ![c] = [NoCallYet EXCEPT !.op = "Start",
                                                       !.running = threadRunning]]
    /\ startRequested' = TRUE
    /\ UNCHANGED << pc, flagVars, waitBeforeStep, semaphore, threadState,
                    sleepTicks, histVars >>
    /\ UNCHANGED otherObjects

\* PutTxSemaphore( &semaphore ): tx_semaphore_put adds one count;
\* os_semaphore_put (xSemaphoreGive) does too, and is refused once the count
\* is at the ceiling given to xSemaphoreCreateCounting
PutTxSemaphore == IF semaphore < SemaphoreCeiling THEN {TRUE} ELSE {TRUE, FALSE}

\* BaseThread::Start(): if( StartAction() ) return signalSemaphore.Signal();
\* return false;  StartAction() is a hook of the derived class.  Signal():
\* EnsureInitialized(), true since CreateBaseThread(), then PutTxSemaphore(
\* &semaphore ); return true;
Signal(c) ==
    /\ cpc[c] = "Signal"
    /\ \E startAction \in BOOLEAN :
       \E put \in PutTxSemaphore :
          /\ semaphore' = IF startAction /\ put THEN semaphore + 1 ELSE semaphore
          /\ cret' = [cret EXCEPT ![c] = startAction]
          /\ clast' = [clast EXCEPT
                         ![c].hook = IF startAction THEN "true" ELSE "false",
                         ![c].put = IF ~startAction THEN "none"
                                    ELSE IF put THEN "ok" ELSE "failed"]
    /\ cpc' = [cpc EXCEPT ![c] = "idle"]
    /\ UNCHANGED << pc, flagVars, waitBeforeStep, threadState, sleepTicks, calls,
                    startRequested, histVars >>
    /\ UNCHANGED notWorker

\* BaseThread::Stop(): MarkThreadStopRequested();
Stop(c) ==
    /\ cpc[c] = "idle"
    /\ calls < MaxCalls
    /\ calls' = calls + 1
    /\ stopThreadRequested' = TRUE
    /\ cpc' = [cpc EXCEPT ![c] = "ResumeTxThreadIfSuspended"]
    /\ clast' = [clast EXCEPT ![c] =
                   [NoCallYet EXCEPT !.op = "Stop",
                                     !.running = threadRunning,
                                     !.afterStart =
                                        \E d \in Controllers :
                                           /\ cpc[d] = "idle" /\ cret[d]
                                           /\ clast[d].op = "Start"]]
    /\ UNCHANGED << pc, threadRunning, threadStepInDelay, setupComplete,
                    cleanupComplete, waitBeforeStep, semaphore, threadState,
                    sleepTicks, cret, startRequested, histVars >>
    /\ UNCHANGED otherObjects

\* a Stop() that waits until the worker is suspended before it resumes it
ResumeTxThreadOnceSuspended(c) ==
    /\ cpc[c] = "ResumeTxThreadIfSuspended"
    /\ threadState = "suspended"
    /\ threadState' = "ready"
    /\ stopInDelay' = FALSE
    /\ cret' = [cret EXCEPT ![c] = TRUE]
    /\ cpc' = [cpc EXCEPT ![c] = "idle"]
    /\ UNCHANGED << pc, flagVars, waitBeforeStep, semaphore, sleepTicks, calls,
                    clast, startRequested, startConsumed, stopObserved, setupRuns,
                    stepRuns, cleanupRuns, cycles, stepTrace, nonZeroStep >>
    /\ UNCHANGED notWorker

\* BaseThread::Stop(): ResumeTxThreadIfSuspended( &txThread ); return true;
\* the thread is resumed only if tx_thread_info_get reports TX_SUSPENDED; a
\* thread inside tx_thread_sleep is in state TX_SLEEP and is left alone
ResumeTxThreadIfSuspended(c) ==
    /\ cpc[c] = "ResumeTxThreadIfSuspended"
    /\ threadState' = IF threadState = "suspended" THEN "ready" ELSE threadState
    /\ stopInDelay' = (pc = "ClearThreadStepInDelay" /\ threadState = "sleep")
    /\ cret' = [cret EXCEPT ![c] = TRUE]
    /\ cpc' = [cpc EXCEPT ![c] = "idle"]
    /\ UNCHANGED << pc, flagVars, waitBeforeStep, semaphore, sleepTicks, calls,
                    clast, startRequested, startConsumed, stopObserved, setupRuns,
                    stepRuns, cleanupRuns, cycles, stepTrace, nonZeroStep >>
    /\ UNCHANGED notWorker

\* BaseThread::Suspend(): SuspendTxThread( &txThread ) of a worker that is
\* neither sleeping nor waiting for its start signal
Suspend(c) ==
    /\ cpc[c] = "idle"
    /\ calls < MaxCalls
    /\ Runnable /\ ~(pc = "WaitForStart" /\ semaphore = 0)
    /\ threadState' = "suspended"
    /\ calls' = calls + 1
    /\ cret' = [cret EXCEPT ![c] = TRUE]
    /\ clast' = [clast EXCEPT ![c] = [NoCallYet EXCEPT !.op = "Suspend",
                                                       !.running = threadRunning]]
    /\ UNCHANGED << pc, flagVars, waitBeforeStep, semaphore, sleepTicks, cpc,
                    startRequested, histVars >>
    /\ UNCHANGED notWorker

\* BaseThread::Resume(): ResumeTxThread( &txThread )
Resume(c) ==
    /\ cpc[c] = "idle"
    /\ calls < MaxCalls
    /\ threadState = "suspended"
    /\ threadState' = "ready"
    /\ calls' = calls + 1
    /\ cret' = [cret EXCEPT ![c] = TRUE]
    /\ clast' = [clast EXCEPT ![c] = [NoCallYet EXCEPT !.op = "Resume",
                                                       !.running = threadRunning]]
    /\ UNCHANGED << pc, flagVars, waitBeforeStep, semaphore, sleepTicks, cpc,
                    startRequested, histVars >>
    /\ UNCHANGED notWorker

\* a controller that is not inside a verification helper calls the public
\* interface directly
DirectCall(c) == vfy[c].at = "none" /\ UNCHANGED verifyVars

CallStart(c) == DirectCall(c) /\ Start(c)

CallStop(c) == DirectCall(c) /\ Stop(c)

ThreadEntry ==
    \/ ClearThreadRunning \/ WaitForStart \/ MarkThreadRunning
    \/ ClearThreadStopRequested \/ ClearCleanupComplete \/ Setup
    \/ IsThreadStopRequested \/ Step \/ MarkThreadStepInDelay \/ TxDelayMsec
    \/ ClearThreadStepInDelay \/ Cleanup \/ ClearSetupComplete

NextWorker ==
    \/ ThreadEntry
    \/ Tick
    \/ \E c \in Controllers :
          \/ CallStart(c) \/ Signal(c)
          \/ CallStop(c) \/ ResumeTxThreadIfSuspended(c)
          \/ Suspend(c) \/ Resume(c)

\* thread->waitBeforeStep = thread->Step(), for the Step() calls beyond the
\* MaxSteps that stepRuns counts: while( !IsThreadStopRequested() ) goes on
\* for as long as no stop request is read
StepUncounted ==
    /\ Runnable /\ pc = "Step"
    /\ stepRuns = MaxSteps
    /\ \E d \in StepDelays : /\ waitBeforeStep' = d
                            /\ nonZeroStep' = (nonZeroStep \/ d # 0)
    /\ stepTrace' = [ran |-> TRUE, started |-> startConsumed,
                     stopSeen |-> stopObserved, cleaning |-> cleanupRuns > 0]
    /\ pc' = "MarkThreadStepInDelay"
    /\ UNCHANGED << flagVars, semaphore, threadState, sleepTicks, ctlVars,
                    startConsumed, stopObserved, setupRuns, stepRuns,
                    cleanupRuns, cycles, stopInDelay >>
    /\ UNCHANGED notWorker

\* the worker started and stopped by its controllers, never suspended
NextWorkerLive ==
    \/ ThreadEntry
    \/ StepUncounted
    \/ Tick
    \/ \E c \in Controllers :
          \/ CallStart(c) \/ Signal(c)
          \/ CallStop(c) \/ ResumeTxThreadIfSuspended(c)

(***************************************************************************)
(* BaseThread::StartThreadAndWaitToVerify and StopThreadAndWaitToVerify,   *)
(* which poll with TestLogicWithTimeout of Utility.h.  Times are in        *)
(* milliseconds.                                                           *)
(***************************************************************************)
\* startTimeoutMsec / stopTimeoutMsec: zero, less than one check interval,
\* several check intervals
VerifyTimeouts == {0, CheckIntervalMs \div 2, MaxTimeout}

\* a controller outside the helpers.  at is its position in the helper; polls
\* counts the calls of func(), observed tells that one of them returned the
\* expected value, callOk is what Start() or Stop() returned, afterStop tells
\* that the helper follows a Stop() of this controller on a running worker,
\* held that func() would have returned the expected value when the helper
\* was called, ret is what the helper returned
NoVerify == [at |-> "none", kind |-> "none", timeout |-> 0, elapsed |-> 0,
             polls |-> 0, observed |-> FALSE, callOk |-> FALSE,
             afterStop |-> FALSE, held |-> FALSE, ret |-> FALSE]

InitVerify == vfy = [c \in Controllers |-> NoVerify]

\* entry of a helper with the timeout its caller chose
BeginVerify(c, kind) ==
    /\ vfy[c].at = "none"
    /\ \E timeout \in VerifyTimeouts :
          vfy' = [vfy EXCEPT ![c] =
                    [NoVerify EXCEPT !.at = "call", !.kind = kind,
                                     !.timeout = timeout,
                                     !.held = IF kind = "Start"
                                                 THEN threadRunning
                                                 ELSE ~threadRunning,
                                     !.afterStop = /\ clast[c].op = "Stop"
                                                   /\ clast[c].running]]

\* StartThreadAndWaitToVerify(): if( Start() )
StartThreadAndWaitToVerify(c) == BeginVerify(c, "Start") /\ Start(c)

\* StopThreadAndWaitToVerify(): if( Stop() )
StopThreadAndWaitToVerify(c) == BeginVerify(c, "Stop") /\ Stop(c)

\* Start() or Stop() has returned: on true, TestLogicWithTimeout() reads the
\* start time; on false, return false
CallReturned(c) ==
    /\ vfy[c].at = "call" /\ cpc[c] = "idle"
    /\ vfy' = [vfy EXCEPT ![c].callOk = cret[c],
                          ![c].at = IF cret[c] THEN "poll" ELSE "none"]
    /\ UNCHANGED << workerVars, otherObjects >>

\* CheckIfThreadIsStarted: return IsThreadRunning();
\* CheckIfThreadIsStopped: return IsThreadStopped();
Func(kind) == IF kind = "Start" THEN threadRunning ELSE IsThreadStopped

\* TestLogicWithTimeout() that reports success when the time is over
TestLogicWithTimeoutAlwaysTrue(c) ==
    /\ vfy[c].at = "poll"
    /\ LET v == vfy[c] IN
       IF v.elapsed < v.timeout /\ Func(v.kind) # TRUE
          THEN /\ vfy' = [vfy EXCEPT ![c].at = "delay", ![c].polls = @ + 1]
               /\ UNCHANGED cret
          ELSE /\ vfy' = [vfy EXCEPT ![c].at = "none", ![c].ret = TRUE,
                                     ![c].polls = IF v.elapsed < v.timeout
                                                  THEN @ + 1 ELSE @,
                                     ![c].observed = v.elapsed < v.timeout]
               /\ cret' = [cret EXCEPT ![c] = TRUE]
    /\ UNCHANGED << pc, flagVars, waitBeforeStep, semaphore, threadState,
                    sleepTicks, cpc, calls, clast, startRequested, histVars >>
    /\ UNCHANGED otherObjects

\* TestLogicWithTimeout(): while( ( os_get_elapsed_time_msec() - start ) <
\* timeoutMsec ) { if( func() == expected ) return true; ... } return false;
TestLogicWithTimeout(c) ==
    /\ vfy[c].at = "poll"
    /\ LET v == vfy[c] IN
       IF v.elapsed < v.timeout
          THEN IF Func(v.kind) = TRUE
                  THEN /\ vfy' = [vfy EXCEPT ![c].at = "none", ![c].ret = TRUE,
                                             ![c].polls = @ + 1,
                                             ![c].observed = TRUE]
                       /\ cret' = [cret EXCEPT ![c] = TRUE]
                  ELSE /\ vfy' = [vfy EXCEPT ![c].at = "delay",
                                             ![c].polls = @ + 1]
                       /\ UNCHANGED cret
          ELSE /\ vfy' = [vfy EXCEPT ![c].at = "none", ![c].ret = FALSE]
               /\ cret' = [cret EXCEPT ![c] = FALSE]
    /\ UNCHANGED << pc, flagVars, waitBeforeStep, semaphore, threadState,
                    sleepTicks, cpc, calls, clast, startRequested, histVars >>
    /\ UNCHANGED otherObjects

\* the worker has no code left to run before time passes: it is blocked, or
\* it loops with no stop request to react to.  The code of ThreadEntry
\* between two such points takes less than a check interval.
WorkerSettled ==
    \/ ~Runnable
    \/ pc = "WaitForStart" /\ semaphore = 0
    \/ InStepLoop /\ ~stopThreadRequested /\ ~(pc = "Step" /\ stepRuns = MaxSteps)

\* os_delay_msec( checkIntervalMs ): the caller sleeps for the check interval
\* or, when it is scheduled late, for longer
os_delay_msec(c) ==
    /\ vfy[c].at = "delay"
    /\ WorkerSettled
    /\ \E slept \in {CheckIntervalMs, 2 * CheckIntervalMs} :
          vfy' = [vfy EXCEPT ![c].at = "poll",
                            ![c].elapsed = IF @ + slept < MaxTimeout
                                           THEN @ + slept ELSE MaxTimeout]
    /\ UNCHANGED << workerVars, otherObjects >>

\* the thread that supervises the worker with the helpers
Supervisors == {"c1"}

NextVerify ==
    \/ ThreadEntry
    \/ Tick
    \/ \E c \in Supervisors :
          \/ CallStart(c) \/ Signal(c)
          \/ CallStop(c) \/ ResumeTxThreadIfSuspended(c)
          \/ StartThreadAndWaitToVerify(c) \/ StopThreadAndWaitToVerify(c)
          \/ CallReturned(c) \/ TestLogicWithTimeout(c) \/ os_delay_msec(c)

(***************************************************************************)
(* EventDrivenDataMultiThread<DataType> of SignalSemaphore.h.              *)
(***************************************************************************)
Ops == {"SetData", "GetRecentData", "GetRecentDataWT", "GetNewData"}

\* GetNewData() and GetNewDataWT() are one code up to the getter they end with
NewDataOps == {"GetNewData", "GetNewDataWT"}

\* the operations that compare dataTimestamp with their argument timestampMsec
NewerThanOps == {"GetRecentDataIfNewerThan", "GetRecentDataIfNewerThanWT",
                 "IsRecentDataNewerThanMsec"}

\* the getters that hand dataTimestamp to their caller
TimestampOps == {"GetRecentDataWT", "GetNewDataWT", "GetRecentDataIfNewerThanWT"}

\* the operations of a consumer that polls the channel
PollingOps == NewDataOps \cup NewerThanOps \cup {"GetRecentData", "GetRecentDataWT"}

\* OS_WAIT_FOREVER = portMAX_DELAY, all the bits of the 32-bit tick count
\* set, which read as a signed number is -1
OS_WAIT_FOREVER == -1

\* the values of waitTime and of timestampMsec
PollingWaitTimes == WaitTimes \cup {OS_WAIT_FOREVER}
Timestamps == 0 .. (ClockModulus - 1)

NoExpect == -1

\* a thread that is not inside a call of the channel
IdleThread ==
    [pc |-> "idle", op |-> "none", arg |-> 0, nested |-> FALSE,
     ts |-> 0, waited |-> 0, ret |-> FALSE, val |-> Indeterminate, outTs |-> 0,
     latest |-> TRUE, haveSet |-> FALSE,
     expect |-> NoExpect, second |-> FALSE, clean |-> FALSE,
     cleared |-> FALSE, stored |-> FALSE, denied |-> FALSE]

\* EventDrivenDataMultiThread(): nothing is created, no owner, no timestamp
InitChannel ==
    /\ initialized = FALSE
    /\ eventFlagGroupCreated = FALSE
    /\ mutexCreated = FALSE
    /\ dataAvailable = FALSE
    /\ mutex = NoThread
    /\ dataSetterOwnerThread = NoThread
    /\ dataGetterOwnerThread = NoThread
    /\ data = Indeterminate
    /\ dataTimestamp = 0
    /\ now = 0
    /\ th = [t \in Threads |-> IdleThread]
    /\ res = IdleThread
    /\ chanCalls = 0
    /\ created = [eventFlagGroup |-> FALSE, mutex |-> FALSE]
    /\ lastSetValue = Indeterminate
    /\ pendingSets = FALSE
    /\ getSinceSet = FALSE

\* dataSetterOwnerThread == nullptr || dataSetterOwnerThread == tx_thread_identify()
\* and the same test on dataGetterOwnerThread in the getters
Permitted(t, op) ==
    IF op = "SetData"
       THEN dataSetterOwnerThread \in {NoThread, t}
       ELSE dataGetterOwnerThread \in {NoThread, t}

\* the call returns ret
Returning(r, ret) == [r EXCEPT !.pc = "Return", !.ret = ret]

\* EnsureInitialized() returned true: the owner test of the operation, then
\* the wait of GetNewData() or the MutexGuard of the others
\* denied records that GetNewData() or GetNewDataWT() itself met another
\* thread as the getter owner.
EnteredWithoutOwnerTest(t, r) ==
    LET d == [r EXCEPT !.denied = (r.op \in NewDataOps /\ ~r.nested
                                   /\ ~Permitted(t, r.op))]
    IN  IF ~Permitted(t, r.op) /\ ~(r.op \in NewDataOps /\ ~r.nested)
           THEN Returning(d, FALSE)
           ELSE IF r.op \in NewDataOps /\ ~r.nested
                   THEN [d EXCEPT !.pc = "Wait"]
                   ELSE [d EXCEPT !.pc = "Lock"]

Entered(t, r) ==
    LET d == [r EXCEPT !.denied = (r.op \in NewDataOps /\ ~r.nested
                                   /\ ~Permitted(t, r.op))]
    IN  IF ~Permitted(t, r.op)
           THEN Returning(d, FALSE)
           ELSE IF r.op \in NewDataOps /\ ~r.nested
                   THEN [d EXCEPT !.pc = "Wait"]
                   ELSE [d EXCEPT !.pc = "Lock"]

\* Initialize() after its first test: if( !mutexCreated ) ...; else return
\* eventFlagGroupCreated && mutexCreated; to initialized = Initialize();
Initialize(t, r, evt) ==
    IF ~mutexCreated
       THEN [r EXCEPT !.pc = "CreateTxMutex"]
       ELSE IF evt THEN Entered(t, r) ELSE Returning(r, FALSE)

\* EnsureInitialized(): if( !initialized ) initialized = Initialize(); and
\* the first test of Initialize(): if( !eventFlagGroupCreated )
EnsureInitialized(t, r) ==
    IF initialized
       THEN Entered(t, r)
       ELSE IF ~eventFlagGroupCreated
               THEN [r EXCEPT !.pc = "CreateTxEventFlags"]
               ELSE Initialize(t, r, TRUE)

\* the value of initialized when EnsureInitialized() has run that far
InitializedAfterEnsure == initialized \/ (eventFlagGroupCreated /\ mutexCreated)

\* another call begins: what a call in progress was expected to return no
\* longer applies to it
Disturbed(r, op) ==
    [r EXCEPT !.expect = NoExpect, !.second = FALSE,
              !.clean = IF op \in NewDataOps THEN FALSE ELSE @]

\* what the caller sees of a call that has returned (and what was expected)
Result(r) == [r EXCEPT !.nested = FALSE, !.ts = 0, !.clean = FALSE]

\* thread t moves to r; a call that returns leaves its result in res
Advance(t, r) ==
    /\ th' = [th EXCEPT ![t] = IF r.pc = "Return" THEN IdleThread ELSE r]
    /\ res' = IF r.pc = "Return" THEN Result(r) ELSE res

SetDataInProgress(t) == \E u \in Threads \ {t} : th[u].op = "SetData"

\* a GetNewData() returns while no SetData() is in progress
GetReturns(t, r) ==
    r.pc = "Return" /\ r.op \in NewDataOps /\ ~SetDataInProgress(t)

\* thread t enters the operation op with the argument a (the value of
\* SetData, the waitTime of GetNewData and GetNewDataWT, the timestampMsec of
\* the comparing getters) and runs EnsureInitialized()
CallOf(t, op, a) ==
    /\ th[t].pc = "idle"
    /\ chanCalls < MaxChanCalls
    /\ chanCalls' = chanCalls + 1
    /\    LET alone == \A u \in Threads \ {t} : th[u].pc = "idle"
              r0 == [IdleThread EXCEPT
                       !.op = op, !.arg = a,
                       !.expect = IF op \in NewDataOps /\ pendingSets /\ alone
                                     /\ Permitted(t, op)
                                     THEN lastSetValue ELSE NoExpect,
                       !.second = (op \in NewDataOps /\ getSinceSet /\ alone),
                       !.clean = (op = "SetData" /\
                                  \A u \in Threads : th[u].op \notin NewDataOps)]
              r == EnsureInitialized(t, r0)
          IN  /\ th' = [u \in Threads |->
                          IF u = t THEN (IF r.pc = "Return" THEN IdleThread ELSE r)
                                   ELSE Disturbed(th[u], op)]
              /\ res' = IF r.pc = "Return" THEN Result(r) ELSE IdleThread
              /\ pendingSets' = IF op \in NewDataOps THEN FALSE ELSE pendingSets
              /\ getSinceSet' = IF op = "SetData" THEN FALSE
                                ELSE IF GetReturns(t, r) THEN TRUE ELSE getSinceSet
    /\ initialized' = InitializedAfterEnsure
    /\ UNCHANGED << eventFlagGroupCreated, mutexCreated,
                    dataAvailable, mutex, dataSetterOwnerThread,
                    dataGetterOwnerThread, data, dataTimestamp, now, created,
                    lastSetValue >>
    /\ UNCHANGED notChannel

\* thread t calls SetData( value ), GetRecentData(), GetRecentDataWT() or
\* GetNewData( waitTime )
Call(t) ==
    \E op \in Ops :
    \E a \in (IF op = "SetData" THEN Values
              ELSE IF op = "GetNewData" THEN WaitTimes ELSE {0}) :
       CallOf(t, op, a)

\* Initialize(): eventFlagGroupCreated = CreateTxEventFlags( ... ), which may
\* fail; a group that is created is a new one, with no flag set.  Then the
\* test if( !mutexCreated ), or return eventFlagGroupCreated && mutexCreated;
\* to initialized = Initialize();
CreateTxEventFlags(t) ==
    /\ th[t].pc = "CreateTxEventFlags"
    /\ \E ok \in BOOLEAN :
          LET r == Initialize(t, [th[t] EXCEPT
                                    !.cleared = @ \/ (ok /\ dataAvailable)], ok)
          IN  /\ eventFlagGroupCreated' = ok
              /\ created' = IF ok THEN [created EXCEPT !.eventFlagGroup = TRUE]
                                  ELSE created
              /\ dataAvailable' = IF ok THEN FALSE ELSE dataAvailable
              /\ initialized' = IF mutexCreated THEN ok ELSE initialized
              /\ Advance(t, r)
              /\ getSinceSet' = IF GetReturns(t, r) THEN TRUE ELSE getSinceSet
    /\ UNCHANGED << mutexCreated, mutex, dataSetterOwnerThread,
                    dataGetterOwnerThread, data, dataTimestamp, now, chanCalls,
                    lastSetValue, pendingSets >>
    /\ UNCHANGED notChannel

\* Initialize(): mutexCreated = CreateTxMutex( mutex, mutexName, TX_INHERIT );
\* return eventFlagGroupCreated && mutexCreated; a mutex that is created is a
\* new one, held by nobody
CreateTxMutex(t) ==
    /\ th[t].pc = "CreateTxMutex"
    /\ \E ok \in BOOLEAN :
          LET r == IF eventFlagGroupCreated /\ ok THEN Entered(t, th[t])
                                                  ELSE Returning(th[t], FALSE)
          IN  /\ mutexCreated' = ok
              /\ created' = IF ok THEN [created EXCEPT !.mutex = TRUE] ELSE created
              /\ mutex' = IF ok THEN NoThread ELSE mutex
              /\ initialized' = (eventFlagGroupCreated /\ ok)
              /\ Advance(t, r)
              /\ getSinceSet' = IF GetReturns(t, r) THEN TRUE ELSE getSinceSet
    /\ UNCHANGED << eventFlagGroupCreated, dataAvailable, dataSetterOwnerThread,
                    dataGetterOwnerThread, data, dataTimestamp, now, chanCalls,
                    lastSetValue, pendingSets >>
    /\ UNCHANGED notChannel

\* MutexGuard guard( (TX_MUTEX*)&mutex ) of the getters: GetTxMutexP obtains
\* the free mutex
MutexGuard(t) ==
    /\ th[t].pc = "Lock"
    /\ th[t].op # "SetData"
    /\ mutex = NoThread
    /\ mutex' = t
    /\ Advance(t, [th[t] EXCEPT !.pc = "Copy"])
    /\ UNCHANGED << initialized, eventFlagGroupCreated, mutexCreated,
                    dataAvailable, dataSetterOwnerThread, dataGetterOwnerThread,
                    data, dataTimestamp, now, chanCalls, created, lastSetValue,
                    pendingSets, getSinceSet >>
    /\ UNCHANGED notChannel

\* MutexGuard guard( (TX_MUTEX*)&mutex ) of the getters: the mutex stayed with
\* another thread for MaxWaitTimeMsec; the constructor reports the failure to
\* pSuccess, here nullptr, and the caller goes on without the mutex
MutexGuardTimeout(t) ==
    /\ th[t].pc = "Lock"
    /\ th[t].op # "SetData"
    /\ mutex \notin {NoThread, t}
    /\ Advance(t, [th[t] EXCEPT !.pc = "Copy"])
    /\ UNCHANGED << initialized, eventFlagGroupCreated, mutexCreated,
                    dataAvailable, mutex, dataSetterOwnerThread,
                    dataGetterOwnerThread, data, dataTimestamp, now, chanCalls,
                    created, lastSetValue, pendingSets, getSinceSet >>
    /\ UNCHANGED notChannel

\* ~MutexGuard(): MutexUnlocker puts the mutex whether or not the guard
\* obtained it.  The owner's put frees it.  The put of a thread that does not
\* hold it is refused by tx_mutex_put (TX_NOT_OWNED) and frees the mutex under
\* xSemaphoreGive without configASSERT.
MutexUnlocker(t) ==
    IF mutex \in {NoThread, t} THEN {NoThread} ELSE {mutex, NoThread}

\* SetData(): MutexGuard guard( (TX_MUTEX*)&mutex ), which obtains the free
\* mutex or gives up after MaxWaitTimeMsec while another thread holds it, and
\* in both cases: data = value; and the clock read of dataTimestamp =
\* GetElapsedTimeMsec()
SetDataStore(t) ==
    /\ th[t].pc = "Lock"
    /\ th[t].op = "SetData"
    /\ mutex' = IF mutex = NoThread THEN t ELSE mutex
    /\ data' = th[t].arg
    /\ Advance(t, [th[t] EXCEPT !.pc = "Signal", !.ts = now, !.stored = TRUE])
    /\ UNCHANGED << initialized, eventFlagGroupCreated, mutexCreated,
                    dataAvailable, dataSetterOwnerThread,
                    dataGetterOwnerThread, dataTimestamp, now, chanCalls,
                    created, lastSetValue, pendingSets, getSinceSet >>
    /\ UNCHANGED notChannel

\* SetData(): the store of dataTimestamp; return SetTxEventFlags(
\* dataAvailableFlagGroup, DATA_AVAILABLE_FLAG ); ~MutexGuard()
SetDataSignal(t) ==
    /\ th[t].pc = "Signal"
    /\ dataTimestamp' = th[t].ts
    /\ dataAvailable' = TRUE
    /\ \E m \in MutexUnlocker(t) : mutex' = m
    /\ Advance(t, Returning(th[t], TRUE))
    /\ lastSetValue' = th[t].arg
    /\ pendingSets' = IF th[t].clean THEN TRUE ELSE pendingSets
    /\ getSinceSet' = FALSE
    /\ UNCHANGED << initialized, eventFlagGroupCreated, mutexCreated,
                    dataSetterOwnerThread, dataGetterOwnerThread, data, now,
                    chanCalls, created >>
    /\ UNCHANGED notChannel

\* if( tempDataTimestampMsec > timestampMsec ) of GetRecentDataIfNewerThanWT()
\* and return ( dataTimestamp > timestampMsec ) of IsRecentDataNewerThanMsec()
NewerThanOrEqual(stamp, timestampMsec) == stamp >= timestampMsec

NewerThan(stamp, timestampMsec) == stamp > timestampMsec

\* GetRecentData(): outData = data; return true;  GetRecentDataWT() also
\* copies timestamp = dataTimestamp;  ~MutexGuard().  GetRecentDataIfNewerThan
\* and GetRecentDataIfNewerThanWT() are GetRecentDataWT() into temporaries,
\* handed on when the timestamp is newer than timestampMsec;
\* IsRecentDataNewerThanMsec() copies nothing and returns the comparison.
GetRecentData(t) ==
    /\ th[t].pc = "Copy"
    /\ \E m \in MutexUnlocker(t) : mutex' = m
    /\ LET op == th[t].op
           ret == IF op \in NewerThanOps
                     THEN NewerThan(dataTimestamp, th[t].arg) ELSE TRUE
           copies == ret /\ op # "IsRecentDataNewerThanMsec"
           r == Returning([th[t] EXCEPT
                             !.val = IF copies THEN data ELSE Indeterminate,
                             !.outTs = IF copies /\ op \in TimestampOps
                                          THEN dataTimestamp ELSE 0,
                             !.latest = (data = lastSetValue),
                             !.haveSet = (lastSetValue # Indeterminate)], ret)
       IN  /\ Advance(t, r)
           /\ getSinceSet' = IF GetReturns(t, r) THEN TRUE ELSE getSinceSet
    /\ UNCHANGED << initialized, eventFlagGroupCreated, mutexCreated,
                    dataAvailable, dataSetterOwnerThread, dataGetterOwnerThread,
                    data, dataTimestamp, now, chanCalls, created, lastSetValue,
                    pendingSets >>
    /\ UNCHANGED notChannel

\* os_event_group_get(): xEventGroupWaitBits( *g, flags, option == OS_AND,
\* option == OS_AND, wait ): the flags are cleared on exit for OS_AND only
ClearOnExit(option) == option = OS_AND

\* whether the wait takes the flag away: tx_event_flags_get with TX_OR_CLEAR
\* does; os_event_group_get does as ClearOnExit says, and the options it
\* knows are OS_AND and OS_OR
FlagConsumed == {TRUE} \cup {ClearOnExit(option) : option \in {OS_AND, OS_OR}}

\* GetNewData(): tx_event_flags_get( ..., DATA_AVAILABLE_FLAG, TX_OR_CLEAR,
\* &actual_flags, waitTime ) finds the flag and the call goes on with return
\* GetRecentData( outData ), which runs EnsureInitialized() again
GetNewData(t) ==
    /\ th[t].pc = "Wait"
    /\ dataAvailable
    /\ \E consumed \in FlagConsumed : dataAvailable' = ~consumed
    /\ Advance(t, EnsureInitialized(t, [th[t] EXCEPT !.nested = TRUE]))
    /\ initialized' = InitializedAfterEnsure
    /\ UNCHANGED << eventFlagGroupCreated, mutexCreated, mutex,
                    dataSetterOwnerThread, dataGetterOwnerThread, data,
                    dataTimestamp, now, chanCalls, created, lastSetValue,
                    pendingSets, getSinceSet >>
    /\ UNCHANGED notChannel

\* GetNewData(): tx_event_flags_get returns TX_NO_EVENTS when waitTime ticks
\* have passed without the flag; return false
GetNewDataTimeout(t) ==
    /\ th[t].pc = "Wait"
    /\ ~dataAvailable
    /\ th[t].waited = th[t].arg
    /\ Advance(t, Returning(th[t], FALSE))
    /\ getSinceSet' = IF SetDataInProgress(t) THEN getSinceSet ELSE TRUE
    /\ UNCHANGED << initialized, eventFlagGroupCreated, mutexCreated,
                    dataAvailable, mutex, dataSetterOwnerThread,
                    dataGetterOwnerThread, data, dataTimestamp, now, chanCalls,
                    created, lastSetValue, pendingSets >>
    /\ UNCHANGED notChannel

\* SetSetterOwnerThreadTo( owner ) with owner != nullptr
SetSetterOwnerThreadTo(t) ==
    /\ th[t].pc = "idle"
    /\ chanCalls < MaxChanCalls
    /\ chanCalls' = chanCalls + 1
    /\ \E owner \in Threads : dataSetterOwnerThread' = owner
    /\ res' = IdleThread
    /\ th' = [u \in Threads |-> Disturbed(th[u], "SetSetterOwnerThreadTo")]
    /\ UNCHANGED << initialized, eventFlagGroupCreated, mutexCreated,
                    dataAvailable, mutex, dataGetterOwnerThread, data,
                    dataTimestamp, now, created, lastSetValue, pendingSets,
                    getSinceSet >>
    /\ UNCHANGED notChannel

\* SetGettersOwnerThreadTo( owner ) with owner != nullptr
SetGettersOwnerThreadTo(t) ==
    /\ th[t].pc = "idle"
    /\ chanCalls < MaxChanCalls
    /\ chanCalls' = chanCalls + 1
    /\ \E owner \in Threads : dataGetterOwnerThread' = owner
    /\ res' = IdleThread
    /\ th' = [u \in Threads |-> Disturbed(th[u], "SetGettersOwnerThreadTo")]
    /\ UNCHANGED << initialized, eventFlagGroupCreated, mutexCreated,
                    dataAvailable, mutex, dataSetterOwnerThread, data,
                    dataTimestamp, now, created, lastSetValue, pendingSets,
                    getSinceSet >>
    /\ UNCHANGED notChannel

\* tx_time_get() advances by one tick and wraps; the threads that wait in
\* tx_event_flags_get have waited one tick more (no count is kept for
\* OS_WAIT_FOREVER, which never runs out)
ChanTick ==
    /\ now' = (now + 1) % ClockModulus
    /\ th' = [u \in Threads |->
                IF th[u].pc = "Wait" /\ th[u].waited < th[u].arg
                   /\ th[u].arg # OS_WAIT_FOREVER
                   THEN [th[u] EXCEPT !.waited = @ + 1] ELSE th[u]]
    /\ UNCHANGED << initialized, eventFlagGroupCreated, mutexCreated,
                    dataAvailable, mutex, dataSetterOwnerThread,
                    dataGetterOwnerThread, data, dataTimestamp, res, chanCalls,
                    created, lastSetValue, pendingSets, getSinceSet >>
    /\ UNCHANGED notChannel

NextChannel ==
    \/ ChanTick
    \/ \E t \in Threads :
          \/ Call(t) \/ CreateTxEventFlags(t) \/ CreateTxMutex(t)
          \/ MutexGuard(t) \/ MutexGuardTimeout(t)
          \/ SetDataStore(t) \/ SetDataSignal(t) \/ GetRecentData(t)
          \/ GetNewData(t) \/ GetNewDataTimeout(t)
          \/ SetSetterOwnerThreadTo(t) \/ SetGettersOwnerThreadTo(t)

\* the producer thread calls SetData( value )
Producer == "t1"

Produce(t) ==
    /\ t = Producer
    /\ \E value \in Values : CallOf(t, "SetData", value)

\* the consumer thread calls one of the getters
Consumer == "t2"

Poll(t) ==
    /\ t = Consumer
    /\ \E op \in PollingOps :
       \E a \in (IF op \in NewDataOps THEN PollingWaitTimes
                 ELSE IF op \in NewerThanOps THEN Timestamps ELSE {0}) :
          CallOf(t, op, a)

\* a producer and a consumer on one channel
NextPolling ==
    \/ ChanTick
    \/ \E t \in Threads :
          \/ Produce(t) \/ Poll(t)
          \/ CreateTxEventFlags(t) \/ CreateTxMutex(t)
          \/ MutexGuard(t) \/ MutexGuardTimeout(t)
          \/ SetDataStore(t) \/ SetDataSignal(t) \/ GetRecentData(t)
          \/ GetNewData(t) \/ GetNewDataTimeout(t)
          \/ SetGettersOwnerThreadTo(t)

(***************************************************************************)
(* ErrorSaver<ErrorType, N> of ErrorSaver.h.  SetError(), ClearError(),    *)
(* IgnoreError() and SetUnknown() are one code with four target statuses.  *)
(***************************************************************************)
NoCall == [e |-> "none", target |-> "none", same |-> FALSE, checked |-> FALSE,
           signalled |-> FALSE]

\* a thread that is not inside a call of the ErrorSaver
IdleSaverThread ==
    [pc |-> "idle", op |-> "none", by |-> NoThread, e |-> "none",
     target |-> "none", arg |-> 0, waited |-> 0,
     alone |-> FALSE, first |-> NoCall, second |-> FALSE, same |-> FALSE,
     checked |-> FALSE, wrote |-> FALSE, signalled |-> FALSE, signals |-> 0,
     seen |-> FALSE, ret |-> FALSE, denied |-> FALSE]

\* ErrorSaver(): nothing is created, no owner, every error Unknown
InitSaver ==
    /\ saverInitialized = FALSE
    /\ saverFlagGroupCreated = FALSE
    /\ errorStatus = [e \in ErrorTypes |-> "Unknown"]
    /\ newActivity = FALSE
    /\ saverMutex = NoThread
    /\ saverSetterOwnerThread = NoThread
    /\ saverGetterOwnerThread = NoThread
    /\ sth = [t \in Threads |-> IdleSaverThread]
    /\ sres = IdleSaverThread
    /\ saverCalls = 0
    /\ prevCall = NoCall
    /\ owed = [t \in Threads |-> 0]
    /\ missed = FALSE
    /\ saverAlive = TRUE
    /\ saverEventFlags = FALSE

\* what EnsureInitialized() can return: true once initialized; else
\* Initialize() gives up when its MutexGuard( mutex,
\* MaxInitializationTimeMsec, &success ) does not get the mutex, and else
\* returns eventFlagGroupCreated, after CreateTxEventFlags, which may fail,
\* if the group was not created before
SaverEnsureInitialized ==
    IF saverInitialized THEN {TRUE}
    ELSE IF saverMutex # NoThread THEN {FALSE}
    ELSE IF saverFlagGroupCreated THEN {TRUE}
    ELSE {TRUE, FALSE}

\* the write that has returned, as the next write sees it
AsCall(r) == [e |-> r.e, target |-> r.target, same |-> r.same,
              checked |-> r.checked, signalled |-> r.signalled]

\* thread t moves to r; a call that returns leaves its result in sres
SaverAdvance(t, r) ==
    /\ sth' = [sth EXCEPT ![t] = IF r.pc = "Return" THEN IdleSaverThread ELSE r]
    /\ sres' = IF r.pc = "Return" THEN r ELSE sres
    /\ prevCall' = IF r.pc = "Return" /\ r.alone THEN AsCall(r) ELSE prevCall

\* another call begins while r is in progress
SaverDisturbed(r) == [r EXCEPT !.alone = FALSE, !.first = NoCall,
                                !.second = FALSE]

\* EnumeratedSetStatus::IsStatus( error, status ): the status stored for
\* error is status
IsStatus(error, status) == errorStatus[error] = status

\* EnumeratedSetStatus::Set( error, status ): the table after the store
StatusSet(error, status) == [errorStatus EXCEPT ![error] = status]

SetErrorOutcomeNoTest(ok, permitted, same) ==
    IF ~ok THEN "False"
    ELSE IF ~permitted THEN "False"
    ELSE "Lock"
\* where SetError() goes: return false when EnsureInitialized() fails or the
\* caller is not the setter owner, return true when the status is the target
\* already, and the guarded write otherwise
SetErrorOutcome(ok, permitted, same) ==
    IF ~ok THEN "False"
    ELSE IF ~permitted THEN "False"
    ELSE IF same THEN "True"
    ELSE "Lock"

\* SetError( error ) and its siblings as far as the test of the stored
\* status: EnsureInitialized(), the test of dataSetterOwnerThread, and
\* if( !errorStatus.IsStatus( error, target ) ), else return true
SetError(t) ==
    /\ saverAlive
    /\ sth[t].pc = "idle"
    /\ saverCalls < MaxSaverCalls
    /\ saverCalls' = saverCalls + 1
    /\ \E e \in ErrorTypes, target \in ErrorStatuses, ok \in SaverEnsureInitialized :
          LET alone == \A u \in Threads \ {t} : sth[u].pc = "idle"
              permitted == saverSetterOwnerThread \in {NoThread, t}
              same == IsStatus(e, target)
              outcome == SetErrorOutcome(ok, permitted, same)
              r0 == [IdleSaverThread EXCEPT
                       !.op = "SetError", !.by = t, !.e = e, !.target = target,
                       !.alone = alone, !.same = same,
                       !.checked = (ok /\ permitted),
                       !.first = IF alone /\ prevCall.e = e
                                    /\ prevCall.target = target
                                    THEN prevCall ELSE NoCall]
              r == IF outcome = "Lock" THEN [r0 EXCEPT !.pc = "Lock"]
                   ELSE [r0 EXCEPT !.pc = "Return", !.ret = (outcome = "True")]
          IN  /\ saverInitialized' = ok
              /\ saverFlagGroupCreated' = (saverFlagGroupCreated \/
                                           (~saverInitialized /\ ok))
              /\ saverEventFlags' = (saverEventFlags \/
                                     (~saverInitialized /\ ~saverFlagGroupCreated /\ ok))
              /\ UNCHANGED saverAlive
              /\ newActivity' = IF ~saverInitialized /\ ~saverFlagGroupCreated /\ ok
                                   THEN FALSE ELSE newActivity
              /\ sth' = [u \in Threads |->
                           IF u = t THEN (IF r.pc = "Return" THEN IdleSaverThread ELSE r)
                                    ELSE SaverDisturbed(sth[u])]
              /\ sres' = IF r.pc = "Return" THEN r ELSE IdleSaverThread
              /\ prevCall' = IF r.pc = "Return" /\ alone THEN AsCall(r) ELSE NoCall
    /\ UNCHANGED << errorStatus, saverMutex, saverSetterOwnerThread, saverGetterOwnerThread, owed,
                    missed >>
    /\ UNCHANGED notSaver

\* the code a setter runs under its MutexGuard
Guarded(op) == IF op = "SetAllUnknown" THEN "SetAll"
               ELSE IF op = "IsErrorSet" THEN "Read" ELSE "Set"

\* a signal raised now falls into the wait time of a GetNewErrorActivity()
\* that has returned false already
SignalMissed == missed \/ \E u \in Threads : owed[u] > 0

\* SetError() and SetAllUnknown(): MutexGuard guard( (TX_MUTEX*)&mutex ) or
\* MutexGuard guard( mutex ) obtains the free mutex
SaverMutexGuard(t) ==
    /\ sth[t].pc = "Lock"
    /\ saverMutex = NoThread
    /\ saverMutex' = t
    /\ SaverAdvance(t, [sth[t] EXCEPT !.pc = Guarded(sth[t].op)])
    /\ UNCHANGED << saverAlive, saverEventFlags, saverInitialized, saverFlagGroupCreated, errorStatus,
                    newActivity, saverSetterOwnerThread, saverGetterOwnerThread, saverCalls, owed,
                    missed >>
    /\ UNCHANGED notSaver

\* SetError() and SetAllUnknown(): the MutexGuard gives up after
\* MaxWaitTimeMsec while another thread holds the mutex; the write goes on
SaverMutexGuardTimeout(t) ==
    /\ sth[t].pc = "Lock"
    /\ saverMutex \notin {NoThread, t}
    /\ SaverAdvance(t, [sth[t] EXCEPT !.pc = Guarded(sth[t].op)])
    /\ UNCHANGED << saverAlive, saverEventFlags, saverInitialized, saverFlagGroupCreated, errorStatus,
                    newActivity, saverMutex, saverSetterOwnerThread,
                    saverGetterOwnerThread, saverCalls,
                    owed, missed >>
    /\ UNCHANGED notSaver

\* SetError(): errorStatus.Set( error, target ); PrintError( error ); return
\* SetTxEventFlags( dataAvailableFlagGroup, DATA_AVAILABLE_FLAG ); ~MutexGuard()
SaverSet(t) ==
    /\ sth[t].pc = "Set"
    /\ errorStatus' = StatusSet(sth[t].e, sth[t].target)
    /\ newActivity' = TRUE
    /\ \E m \in (IF saverMutex \in {NoThread, t} THEN {NoThread}
                                                ELSE {saverMutex, NoThread}) :
          saverMutex' = m
    /\ SaverAdvance(t, [sth[t] EXCEPT !.pc = "Return", !.ret = TRUE,
                                       !.wrote = TRUE, !.signalled = TRUE,
                                       !.signals = 1])
    /\ missed' = SignalMissed
    /\ UNCHANGED << saverAlive, saverEventFlags, saverInitialized, saverFlagGroupCreated,
                    saverSetterOwnerThread, saverGetterOwnerThread, saverCalls, owed >>
    /\ UNCHANGED notSaver

\* EnumeratedSetStatus::SetAll( status ): the table after the store
StatusSetAll(status) == [e \in ErrorTypes |-> status]

\* SetAllUnknown() that tests no owner
SetAllUnknownUngated(t) ==
    /\ saverAlive
    /\ sth[t].pc = "idle"
    /\ saverCalls < MaxSaverCalls
    /\ saverCalls' = saverCalls + 1
    /\ \E ok \in SaverEnsureInitialized :
          LET permitted == saverSetterOwnerThread \in {NoThread, t}
              r0 == [IdleSaverThread EXCEPT
                       !.op = "SetAllUnknown", !.by = t,
                       !.checked = (ok /\ permitted)]
              r == IF ok THEN [r0 EXCEPT !.pc = "Lock"]
                   ELSE [r0 EXCEPT !.pc = "Return", !.ret = FALSE]
          IN  /\ saverInitialized' = ok
              /\ saverFlagGroupCreated' = (saverFlagGroupCreated \/
                                           (~saverInitialized /\ ok))
              /\ saverEventFlags' = (saverEventFlags \/
                                     (~saverInitialized /\ ~saverFlagGroupCreated /\ ok))
              /\ UNCHANGED saverAlive
              /\ newActivity' = IF ~saverInitialized /\ ~saverFlagGroupCreated /\ ok
                                   THEN FALSE ELSE newActivity
              /\ sth' = [u \in Threads |->
                           IF u = t THEN (IF r.pc = "Return" THEN IdleSaverThread ELSE r)
                                    ELSE SaverDisturbed(sth[u])]
              /\ sres' = IF r.pc = "Return" THEN r ELSE IdleSaverThread
    /\ prevCall' = NoCall
    /\ UNCHANGED << errorStatus, saverMutex, saverSetterOwnerThread, saverGetterOwnerThread, owed,
                    missed >>
    /\ UNCHANGED notSaver

\* SetAllUnknown() as far as its MutexGuard: EnsureInitialized() and the
\* test of dataSetterOwnerThread, else return false
SetAllUnknown(t) ==
    /\ saverAlive
    /\ sth[t].pc = "idle"
    /\ saverCalls < MaxSaverCalls
    /\ saverCalls' = saverCalls + 1
    /\ \E ok \in SaverEnsureInitialized :
          LET permitted == saverSetterOwnerThread \in {NoThread, t}
              r0 == [IdleSaverThread EXCEPT
                       !.op = "SetAllUnknown", !.by = t,
                       !.checked = (ok /\ permitted)]
              r == IF ok /\ permitted THEN [r0 EXCEPT !.pc = "Lock"]
                   ELSE [r0 EXCEPT !.pc = "Return", !.ret = FALSE]
          IN  /\ saverInitialized' = ok
              /\ saverFlagGroupCreated' = (saverFlagGroupCreated \/
                                           (~saverInitialized /\ ok))
              /\ saverEventFlags' = (saverEventFlags \/
                                     (~saverInitialized /\ ~saverFlagGroupCreated /\ ok))
              /\ UNCHANGED saverAlive
              /\ newActivity' = IF ~saverInitialized /\ ~saverFlagGroupCreated /\ ok
                                   THEN FALSE ELSE newActivity
              /\ sth' = [u \in Threads |->
                           IF u = t THEN (IF r.pc = "Return" THEN IdleSaverThread ELSE r)
                                    ELSE SaverDisturbed(sth[u])]
              /\ sres' = IF r.pc = "Return" THEN r ELSE IdleSaverThread
    /\ prevCall' = NoCall
    /\ UNCHANGED << errorStatus, saverMutex, saverSetterOwnerThread, saverGetterOwnerThread, owed,
                    missed >>
    /\ UNCHANGED notSaver

\* SetAllUnknown() that resets the table and raises no signal
SaverSetAllNoSignal(t) ==
    /\ sth[t].pc = "SetAll"
    /\ errorStatus' = StatusSetAll("Unknown")
    /\ \E m \in (IF saverMutex \in {NoThread, t} THEN {NoThread}
                                                ELSE {saverMutex, NoThread}) :
          saverMutex' = m
    /\ SaverAdvance(t, [sth[t] EXCEPT
                          !.pc = "Return", !.ret = TRUE, !.wrote = TRUE,
                          !.same = (errorStatus = StatusSetAll("Unknown"))])
    /\ UNCHANGED << saverAlive, saverEventFlags, saverInitialized, saverFlagGroupCreated, newActivity,
                    saverSetterOwnerThread, saverGetterOwnerThread, saverCalls, owed, missed >>
    /\ UNCHANGED notSaver

\* SetAllUnknown(): errorStatus.SetAll( ErrorStatus::Unknown ); return
\* SetTxEventFlags( dataAvailableFlagGroup, DATA_AVAILABLE_FLAG, true );
\* ~MutexGuard()
SaverSetAll(t) ==
    /\ sth[t].pc = "SetAll"
    /\ errorStatus' = StatusSetAll("Unknown")
    /\ newActivity' = TRUE
    /\ \E m \in (IF saverMutex \in {NoThread, t} THEN {NoThread}
                                                ELSE {saverMutex, NoThread}) :
          saverMutex' = m
    /\ SaverAdvance(t, [sth[t] EXCEPT
                          !.pc = "Return", !.ret = TRUE, !.wrote = TRUE,
                          !.signalled = TRUE, !.signals = 1,
                          !.same = (errorStatus = StatusSetAll("Unknown"))])
    /\ missed' = SignalMissed
    /\ UNCHANGED << saverAlive, saverEventFlags, saverInitialized, saverFlagGroupCreated,
                    saverSetterOwnerThread, saverGetterOwnerThread, saverCalls, owed >>
    /\ UNCHANGED notSaver

\* tx_event_flags_get on dataAvailableFlagGroup before any setter has created
\* it: ThreadX refuses the group (TX_GROUP_ERROR) and the call returns false;
\* xEventGroupWaitBits on the handle that was never assigned is undefined
UncreatedGroupGet == {"False", "True", "Fault"}

\* GetNewErrorActivity( waitTime ), which does not call EnsureInitialized():
\* tx_event_flags_get( &dataAvailableFlagGroup, DATA_AVAILABLE_FLAG,
\* TX_OR_CLEAR, &actual_flags, waitTime ) takes the flag that is set, returns
\* at once for a waitTime of 0, and waits otherwise
GetNewErrorActivity(t) ==
    /\ saverAlive
    /\ sth[t].pc = "idle"
    /\ saverCalls < MaxSaverCalls
    /\ saverCalls' = saverCalls + 1
    /\ \E waitTime \in WaitTimes, consumed \in FlagConsumed,
          outcome \in UncreatedGroupGet :
          LET alone == \A u \in Threads \ {t} : sth[u].pc = "idle"
              r0 == [IdleSaverThread EXCEPT
                       !.op = "GetNewErrorActivity", !.by = t, !.arg = waitTime,
                       !.denied = saverGetterOwnerThread \notin {NoThread, t},
                       !.second = /\ alone
                                  /\ sres.op = "GetNewErrorActivity"
                                  /\ sres.ret /\ sres.seen]
              r == IF ~saverFlagGroupCreated
                      THEN IF outcome = "Fault" THEN [r0 EXCEPT !.pc = "Fault"]
                           ELSE [r0 EXCEPT !.pc = "Return",
                                           !.ret = (outcome = "True")]
                   ELSE IF newActivity
                      THEN [r0 EXCEPT !.pc = "Return", !.ret = TRUE, !.seen = TRUE]
                   ELSE IF waitTime = 0
                      THEN [r0 EXCEPT !.pc = "Return", !.ret = FALSE]
                   ELSE [r0 EXCEPT !.pc = "Wait"]
          IN  /\ newActivity' = IF saverFlagGroupCreated /\ newActivity
                                   THEN ~consumed ELSE newActivity
              /\ sth' = [u \in Threads |->
                           IF u = t THEN (IF r.pc = "Return" THEN IdleSaverThread ELSE r)
                                    ELSE SaverDisturbed(sth[u])]
              /\ sres' = IF r.pc = "Return" THEN r ELSE IdleSaverThread
              /\ owed' = [owed EXCEPT ![t] = IF r.pc = "Return" /\ ~r.ret
                                                THEN waitTime ELSE 0]
    /\ prevCall' = NoCall
    /\ UNCHANGED << saverAlive, saverEventFlags, saverInitialized, saverFlagGroupCreated, errorStatus,
                    saverMutex, saverSetterOwnerThread, saverGetterOwnerThread, missed >>
    /\ UNCHANGED notSaver

\* GetNewErrorActivity(): the flag is set while tx_event_flags_get waits;
\* the wait takes it and the call returns true
GetNewErrorActivityWake(t) ==
    /\ sth[t].pc = "Wait"
    /\ newActivity
    /\ \E consumed \in FlagConsumed : newActivity' = ~consumed
    /\ SaverAdvance(t, [sth[t] EXCEPT !.pc = "Return", !.ret = TRUE,
                                       !.seen = TRUE])
    /\ UNCHANGED << saverAlive, saverEventFlags, saverInitialized, saverFlagGroupCreated, errorStatus,
                    saverMutex, saverSetterOwnerThread, saverGetterOwnerThread, saverCalls, owed,
                    missed >>
    /\ UNCHANGED notSaver

\* GetNewErrorActivity(): tx_event_flags_get returns TX_NO_EVENTS when
\* waitTime ticks have passed without the flag; return false
GetNewErrorActivityTimeout(t) ==
    /\ sth[t].pc = "Wait"
    /\ ~newActivity
    /\ sth[t].waited = sth[t].arg
    /\ SaverAdvance(t, [sth[t] EXCEPT !.pc = "Return", !.ret = FALSE])
    /\ UNCHANGED << saverAlive, saverEventFlags, saverInitialized, saverFlagGroupCreated, errorStatus,
                    newActivity, saverMutex, saverSetterOwnerThread,
                    saverGetterOwnerThread, saverCalls,
                    owed, missed >>
    /\ UNCHANGED notSaver

\* one tick passes for the threads that wait in tx_event_flags_get, and of
\* the wait time of the calls that have returned early
SaverTick ==
    /\ \E u \in Threads :
          \/ sth[u].pc = "Wait" /\ sth[u].waited < sth[u].arg
          \/ owed[u] > 0
    /\ sth' = [u \in Threads |->
                 IF sth[u].pc = "Wait" /\ sth[u].waited < sth[u].arg
                    THEN [sth[u] EXCEPT !.waited = @ + 1] ELSE sth[u]]
    /\ owed' = [u \in Threads |-> IF owed[u] > 0 THEN owed[u] - 1 ELSE 0]
    /\ UNCHANGED << saverAlive, saverEventFlags, saverInitialized, saverFlagGroupCreated, errorStatus,
                    newActivity, saverMutex, saverSetterOwnerThread, saverGetterOwnerThread, sres,
                    saverCalls, prevCall, missed >>
    /\ UNCHANGED notSaver

\* ErrorSaver::SetSetterOwnerThreadTo( owner ) with owner != nullptr
SaverSetSetterOwnerThreadTo(t) ==
    /\ saverAlive
    /\ sth[t].pc = "idle"
    /\ saverCalls < MaxSaverCalls
    /\ saverCalls' = saverCalls + 1
    /\ \E owner \in Threads : saverSetterOwnerThread' = owner
    /\ sth' = [u \in Threads |-> SaverDisturbed(sth[u])]
    /\ sres' = IdleSaverThread
    /\ prevCall' = NoCall
    /\ UNCHANGED << saverGetterOwnerThread, saverAlive, saverEventFlags,
                    saverInitialized, saverFlagGroupCreated, errorStatus,
                    newActivity, saverMutex, owed, missed >>
    /\ UNCHANGED notSaver

\* ErrorSaver::SetGettersOwnerThreadTo( owner ) with owner != nullptr
SaverSetGettersOwnerThreadTo(t) ==
    /\ saverAlive
    /\ sth[t].pc = "idle"
    /\ saverCalls < MaxSaverCalls
    /\ saverCalls' = saverCalls + 1
    /\ \E owner \in Threads : saverGetterOwnerThread' = owner
    /\ sth' = [u \in Threads |-> SaverDisturbed(sth[u])]
    /\ sres' = IdleSaverThread
    /\ prevCall' = NoCall
    /\ UNCHANGED << saverSetterOwnerThread, saverAlive, saverEventFlags,
                    saverInitialized, saverFlagGroupCreated, errorStatus,
                    newActivity, saverMutex, owed, missed >>
    /\ UNCHANGED notSaver

\* IsErrorSet( error ) as far as its MutexGuard: EnsureInitialized() and the
\* test of dataGetterOwnerThread, else return false
IsErrorSet(t) ==
    /\ saverAlive
    /\ sth[t].pc = "idle"
    /\ saverCalls < MaxSaverCalls
    /\ saverCalls' = saverCalls + 1
    /\ \E e \in ErrorTypes, ok \in SaverEnsureInitialized :
          LET alone == \A u \in Threads \ {t} : sth[u].pc = "idle"
              permitted == saverGetterOwnerThread \in {NoThread, t}
              r0 == [IdleSaverThread EXCEPT
                       !.op = "IsErrorSet", !.by = t, !.e = e,
                       !.alone = alone, !.checked = (ok /\ permitted),
                       !.denied = ~permitted,
                       !.first = IF alone /\ prevCall.e = e
                                    THEN prevCall ELSE NoCall]
              r == IF ok /\ permitted THEN [r0 EXCEPT !.pc = "Lock"]
                   ELSE [r0 EXCEPT !.pc = "Return", !.ret = FALSE]
          IN  /\ saverInitialized' = ok
              /\ saverFlagGroupCreated' = (saverFlagGroupCreated \/
                                           (~saverInitialized /\ ok))
              /\ saverEventFlags' = (saverEventFlags \/
                                     (~saverInitialized /\ ~saverFlagGroupCreated /\ ok))
              /\ newActivity' = IF ~saverInitialized /\ ~saverFlagGroupCreated /\ ok
                                   THEN FALSE ELSE newActivity
              /\ sth' = [u \in Threads |->
                           IF u = t THEN (IF r.pc = "Return" THEN IdleSaverThread ELSE r)
                                    ELSE SaverDisturbed(sth[u])]
              /\ sres' = IF r.pc = "Return" THEN r ELSE IdleSaverThread
    /\ prevCall' = NoCall
    /\ UNCHANGED << saverAlive, errorStatus, saverMutex, saverSetterOwnerThread,
                    saverGetterOwnerThread, owed, missed >>
    /\ UNCHANGED notSaver

\* IsErrorSet() that answers true whatever is stored
SaverReadAlwaysSet(t) ==
    /\ sth[t].pc = "Read"
    /\ \E m \in (IF saverMutex \in {NoThread, t} THEN {NoThread}
                                                ELSE {saverMutex, NoThread}) :
          saverMutex' = m
    /\ SaverAdvance(t, [sth[t] EXCEPT !.pc = "Return", !.ret = TRUE])
    /\ UNCHANGED << saverAlive, saverEventFlags, saverInitialized,
                    saverFlagGroupCreated, errorStatus, newActivity,
                    saverSetterOwnerThread, saverGetterOwnerThread, saverCalls, owed, missed >>
    /\ UNCHANGED notSaver

\* IsErrorSet(): return errorStatus.IsStatus( error, ErrorStatus::Set );
\* ~MutexGuard()
SaverRead(t) ==
    /\ sth[t].pc = "Read"
    /\ \E m \in (IF saverMutex \in {NoThread, t} THEN {NoThread}
                                                ELSE {saverMutex, NoThread}) :
          saverMutex' = m
    /\ SaverAdvance(t, [sth[t] EXCEPT !.pc = "Return",
                                       !.ret = IsStatus(sth[t].e, "Set")])
    /\ UNCHANGED << saverAlive, saverEventFlags, saverInitialized,
                    saverFlagGroupCreated, errorStatus, newActivity,
                    saverSetterOwnerThread, saverGetterOwnerThread, saverCalls, owed, missed >>
    /\ UNCHANGED notSaver

\* ~ErrorSaver() and ~FlagsSaver(): no code; of the members only Mutex mutex
\* has a destructor, which deletes the OS mutex it made.  Nothing deletes
\* dataAvailableFlagGroup.  The object is destroyed when no call is inside it.
DestroySaver ==
    /\ saverAlive
    /\ \A t \in Threads : sth[t].pc = "idle"
    /\ saverAlive' = FALSE
    /\ UNCHANGED << saverEventFlags, saverInitialized, saverFlagGroupCreated,
                    errorStatus, newActivity, saverMutex,
                    saverSetterOwnerThread, saverGetterOwnerThread, sth, sres, saverCalls, prevCall,
                    owed, missed >>
    /\ UNCHANGED notSaver

NextSaver ==
    \/ SaverTick
    \/ DestroySaver
    \/ \E t \in Threads :
          \/ SetError(t) \/ SaverMutexGuard(t) \/ SaverMutexGuardTimeout(t)
          \/ SaverSet(t) \/ SetAllUnknown(t) \/ SaverSetAll(t)
          \/ GetNewErrorActivity(t) \/ GetNewErrorActivityWake(t)
          \/ GetNewErrorActivityTimeout(t)
          \/ SaverSetSetterOwnerThreadTo(t)
          \/ IsErrorSet(t) \/ SaverRead(t)

\* the setters of single errors and the getters, with a getter owner that
\* may be designated
NextActivity ==
    \/ SaverTick
    \/ \E t \in Threads :
          \/ SetError(t) \/ SaverMutexGuard(t) \/ SaverMutexGuardTimeout(t)
          \/ SaverSet(t)
          \/ GetNewErrorActivity(t) \/ GetNewErrorActivityWake(t)
          \/ GetNewErrorActivityTimeout(t)
          \/ SaverSetGettersOwnerThreadTo(t)
          \/ IsErrorSet(t) \/ SaverRead(t)

(***************************************************************************)
(* MutexGuard of MutexGuard.cpp over an OS_Mutex the application created   *)
(* ("raw") and over a Mutex of Mutex.cpp ("named"), which creates its      *)
(* OS_Mutex at its first use.                                              *)
(***************************************************************************)
GuardSources == {"raw", "named"}

\* the OS_Mutex objects a Mutex can come to make: one for each EnsureInitialized()
\* of a constructor or destructor
Handles == 1 .. (2 * MaxGuards)

\* a thread with no MutexGuard in scope; dtor tells ~MutexGuard() from the
\* constructor, success is *pSuccess
NoGuard == [pc |-> "idle", source |-> "none", dtor |-> FALSE, success |-> FALSE]

\* Mutex::Mutex(): mutex {}, initialized( false ); the OS_Mutex of the
\* application exists and is free
InitGuard ==
    /\ osMutex = NoThread
    /\ wrapper = [initialized |-> FALSE, handle |-> 0]
    /\ holder = [h \in Handles |-> NoThread]
    /\ gd = [t \in Threads |-> NoGuard]
    /\ guards = 0

\* MutexGuard( OS_Mutex* mutexArg, uint32_t maxMsecToWait, bool* pSuccess ) goes
\* to os_mutex_get_p; MutexGuard( Mutex& mutexArg, ..., bool* pSuccess ) to
\* mutexArg.Lock(), whose EnsureInitialized() reads initialized
GuardConstruct(t) ==
    /\ gd[t].pc = "idle"
    /\ guards < MaxGuards
    /\ guards' = guards + 1
    /\ \E source \in GuardSources :
          gd' = [gd EXCEPT ![t] = [NoGuard EXCEPT
                    !.source = source,
                    !.pc = IF source = "named" /\ ~wrapper.initialized
                              THEN "Create" ELSE "Get"]]
    /\ UNCHANGED << osMutex, wrapper, holder >>
    /\ UNCHANGED notGuard

\* the OS_Mutex objects that can stand for a new one: above the one the Mutex
\* has and above every one that is held
Unmade == {h \in Handles : \A k \in Handles : k >= h => wrapper.handle < h
                                                        /\ holder[k] = NoThread}

\* Mutex::EnsureInitialized(): initialized = CreateTxMutex( mutex, mutexName ),
\* with os_mutex_create: *m = xSemaphoreCreateMutex(), a new mutex that nobody
\* holds, or null.  Lock() and Unlock() return false when it fails.
GuardCreate(t) ==
    /\ gd[t].pc = "Create"
    /\ \E ok \in BOOLEAN :
          /\ ok => Unmade # {}
          /\ wrapper' = IF ok
                           THEN [initialized |-> TRUE,
                                 handle |-> CHOOSE h \in Unmade :
                                               \A k \in Unmade : h <= k]
                           ELSE [initialized |-> FALSE, handle |-> 0]
          /\ gd' = [gd EXCEPT ![t] =
                      IF ok THEN [@ EXCEPT !.pc = IF gd[t].dtor THEN "Put" ELSE "Get"]
                      ELSE IF gd[t].dtor THEN NoGuard
                      ELSE [@ EXCEPT !.pc = "Scope", !.success = FALSE]]
    /\ UNCHANGED << osMutex, holder, guards >>
    /\ UNCHANGED notGuard

\* the thread that holds the mutex the guard of t is about, NoThread for a
\* free one; a Mutex whose creation failed has no mutex
HolderOf(t) ==
    IF gd[t].source = "raw" THEN osMutex
    ELSE IF wrapper.handle = 0 THEN "null"
    ELSE holder[wrapper.handle]

\* the mutex the guard of t is about is held by who
SetHolderOf(t, who) ==
    IF gd[t].source = "raw"
       THEN osMutex' = who /\ UNCHANGED holder
       ELSE holder' = [holder EXCEPT ![wrapper.handle] = who] /\ UNCHANGED osMutex

\* os_mutex_get: xSemaphoreTake obtains the free mutex within the wait;
\* if( pSuccess != nullptr ) { *pSuccess = ( result ); }
GuardGet(t) ==
    /\ gd[t].pc = "Get"
    /\ HolderOf(t) = NoThread
    /\ SetHolderOf(t, t)
    /\ gd' = [gd EXCEPT ![t].pc = "Scope", ![t].success = TRUE]
    /\ UNCHANGED << wrapper, guards >>
    /\ UNCHANGED notGuard

\* os_mutex_get: the mutex stayed with its holder for the whole wait (a null
\* mutex is never obtained); the constructor reports false and returns
GuardGetTimeoutReportsSuccess(t) ==
    /\ gd[t].pc = "Get"
    /\ HolderOf(t) # NoThread
    /\ gd' = [gd EXCEPT ![t].pc = "Scope", ![t].success = TRUE]
    /\ UNCHANGED << osMutex, wrapper, holder, guards >>
    /\ UNCHANGED notGuard

GuardGetTimeout(t) ==
    /\ gd[t].pc = "Get"
    /\ HolderOf(t) # NoThread
    /\ gd' = [gd EXCEPT ![t].pc = "Scope", ![t].success = FALSE]
    /\ UNCHANGED << osMutex, wrapper, holder, guards >>
    /\ UNCHANGED notGuard

\* the scope ends: ~MutexGuard() visits MutexUnlocker, which for a Mutex is
\* Unlock() and begins with the read of initialized in EnsureInitialized()
GuardScopeEnds(t) ==
    /\ gd[t].pc = "Scope"
    /\ gd' = [gd EXCEPT ![t].dtor = TRUE,
                        ![t].pc = IF gd[t].source = "named" /\ ~wrapper.initialized
                                     THEN "Create" ELSE "Put"]
    /\ UNCHANGED << osMutex, wrapper, holder, guards >>
    /\ UNCHANGED notGuard

\* os_mutex_put( mutexArg ) of MutexUnlocker and of Mutex::Unlock(): the put
\* of the holder frees the mutex; the put of another thread is refused or,
\* under xSemaphoreGive without configASSERT, frees it; nothing is put into
\* a null mutex
GuardPut(t) ==
    /\ gd[t].pc = "Put"
    /\ \/ HolderOf(t) \in {t, NoThread} /\ SetHolderOf(t, NoThread)
       \/ HolderOf(t) \notin {t, NoThread, "null"} /\ SetHolderOf(t, NoThread)
       \/ HolderOf(t) \notin {t, NoThread} /\ UNCHANGED << osMutex, holder >>
    /\ gd' = [gd EXCEPT ![t] = NoGuard]
    /\ UNCHANGED << wrapper, guards >>
    /\ UNCHANGED notGuard

NextGuard ==
    \E t \in Threads :
       \/ GuardConstruct(t) \/ GuardCreate(t)
       \/ GuardGet(t) \/ GuardGetTimeout(t)
       \/ GuardScopeEnds(t) \/ GuardPut(t)

(***************************************************************************)
(* BaseThread::CreateBaseThread and the OS threads it makes, each of which *)
(* runs ThreadEntry on the one BaseThread object.                          *)
(***************************************************************************)
Tasks == 1 .. MaxTasks

\* the positions of ThreadEntry at which a thread is inside Setup(), the Step
\* loop or Cleanup()
Executing == {"Setup", "Step", "Cleanup"}

\* BaseThread(): osThreadCreated( false ); no OS thread exists
InitCreate ==
    /\ osThreadCreated = FALSE
    /\ tasks = [k \in Tasks |-> "none"]

\* CreateBaseThread(): if( signalSemaphore.EnsureInitialized() ) { status =
\* os_thread_create_ex( &osThread, osThreadName, ThreadEntry, this, ... ); if(
\* status ) { osThreadCreated = true; return true; } return false; }
\* osThreadCreated is not read.  xTaskCreate makes a new task at every call
\* or fails for lack of memory; tx_thread_create fails on a control block
\* that is in use.
CreateBaseThread ==
    /\ \E k \in Tasks, ok \in BOOLEAN :
          /\ tasks[k] = "none" /\ \A j \in Tasks : j < k => tasks[j] # "none"
          /\ IF ok THEN /\ tasks' = [tasks EXCEPT ![k] = "ClearThreadRunning"]
                        /\ osThreadCreated' = TRUE
                   ELSE UNCHANGED createVars
    /\ UNCHANGED << workerVars, notTasks >>

\* ThreadEntry of OS thread k: thread->ClearThreadRunning()
TaskClearThreadRunning(k) ==
    /\ tasks[k] = "ClearThreadRunning"
    /\ threadRunning' = FALSE
    /\ tasks' = [tasks EXCEPT ![k] = "WaitForStart"]
    /\ UNCHANGED << pc, threadStepInDelay, setupComplete, cleanupComplete,
                    stopThreadRequested, waitBeforeStep, semaphore, threadState,
                    sleepTicks, ctlVars, histVars >>
    /\ UNCHANGED << osThreadCreated, notTasks >>

\* ThreadEntry of OS thread k: WaitForStart() takes a start signal, then
\* MarkThreadRunning(), ClearThreadStopRequested(), ClearCleanupComplete()
TaskWaitForStart(k) ==
    /\ tasks[k] = "WaitForStart"
    /\ semaphore > 0
    /\ semaphore' = semaphore - 1
    /\ threadRunning' = TRUE
    /\ stopThreadRequested' = FALSE
    /\ cleanupComplete' = FALSE
    /\ tasks' = [tasks EXCEPT ![k] = "Setup"]
    /\ UNCHANGED << pc, threadStepInDelay, setupComplete, waitBeforeStep,
                    threadState, sleepTicks, ctlVars, histVars >>
    /\ UNCHANGED << osThreadCreated, notTasks >>

\* ThreadEntry of OS thread k: if( !IsSetupComplete() ) { Setup();
\* MarkSetupComplete(); }
TaskSetup(k) ==
    /\ tasks[k] = "Setup"
    /\ setupComplete' = TRUE
    /\ tasks' = [tasks EXCEPT ![k] = "Step"]
    /\ UNCHANGED << pc, threadRunning, threadStepInDelay, cleanupComplete,
                    stopThreadRequested, waitBeforeStep, semaphore, threadState,
                    sleepTicks, ctlVars, histVars >>
    /\ UNCHANGED << osThreadCreated, notTasks >>

\* ThreadEntry of OS thread k: while( !IsThreadStopRequested() ) { Step();
\* ... } ends when the stop request is read
TaskIsThreadStopRequested(k) ==
    /\ tasks[k] = "Step"
    /\ stopThreadRequested
    /\ tasks' = [tasks EXCEPT ![k] = "Cleanup"]
    /\ UNCHANGED << workerVars, osThreadCreated, notTasks >>

\* ThreadEntry of OS thread k: if( !IsCleanupComplete() ) { Cleanup();
\* MarkCleanupComplete(); } ClearSetupComplete();
TaskCleanup(k) ==
    /\ tasks[k] = "Cleanup"
    /\ cleanupComplete' = TRUE
    /\ setupComplete' = FALSE
    /\ tasks' = [tasks EXCEPT ![k] = "ClearThreadRunning"]
    /\ UNCHANGED << pc, threadRunning, threadStepInDelay, stopThreadRequested,
                    waitBeforeStep, semaphore, threadState, sleepTicks, ctlVars,
                    histVars >>
    /\ UNCHANGED << osThreadCreated, notTasks >>

\* the application creates the OS thread of a worker, more than once, and
\* its controllers start and stop the worker
NextCreate ==
    \/ CreateBaseThread
    \/ \E k \in Tasks :
          \/ TaskClearThreadRunning(k) \/ TaskWaitForStart(k) \/ TaskSetup(k)
          \/ TaskIsThreadStopRequested(k) \/ TaskCleanup(k)
    \/ \E c \in Controllers :
          \/ CallStart(c) \/ Signal(c)
          \/ CallStop(c) \/ ResumeTxThreadIfSuspended(c)

(***************************************************************************)
(* OsQueue<MessageType, queueSizeBytes> and OsEventFlags: Send and Receive *)
(* of the one, Set and Get of the other, each under a MutexGuard on the    *)
(* wrapper's own mtx.                                                      *)
(***************************************************************************)
Wrappers == {"OsQueue", "OsEventFlags"}

OS_NO_WAIT == 0

\* the wait_option of a Receive or a Get
WrapWaits == {OS_NO_WAIT, OS_WAIT_FOREVER} \cup (1 .. MaxWait)

\* a thread that is in no call of a wrapper; locked is the outcome of the
\* MutexGuard, option the getOption of a Get
IdleWrapThread ==
    [pc |-> "idle", obj |-> "none", op |-> "none", wait |-> 0, waited |-> 0,
     option |-> 0, locked |-> FALSE]

NoWrapCall ==
    [t |-> NoThread, obj |-> "none", op |-> "none", ret |-> FALSE,
     found |-> FALSE, expired |-> FALSE]

\* the wrappers are initialized (EnsureInitialized() returns true), the
\* queue is empty, no flag is set and nobody holds a mtx
InitWrappers ==
    /\ wmtx = [w \in Wrappers |-> NoThread]
    /\ stored = [w \in Wrappers |-> 0]
    /\ wth = [t \in Threads |-> IdleWrapThread]
    /\ wres = NoWrapCall
    /\ wrapCalls = 0

\* a thread calls Send( message, wait_option ), Receive( message,
\* wait_option ), Set( flagsToSet ) or Get( flagsToGet, getOption,
\* wait_option ); the next thing it does is MutexGuard guard( &mtx )
WrapperCall(t) ==
    /\ wth[t].pc = "idle"
    /\ wrapCalls < MaxWrapCalls
    /\ wrapCalls' = wrapCalls + 1
    /\ \E w \in Wrappers, put \in BOOLEAN, wait \in WrapWaits,
          option \in {OS_AND, OS_OR} :
          /\ (w = "OsQueue" \/ put) => option = OS_OR
          /\ put => wait = OS_NO_WAIT
          /\ wth' = [wth EXCEPT ![t] =
                       [IdleWrapThread EXCEPT
                           !.pc = "Guard", !.obj = w, !.wait = wait,
                           !.option = option,
                           !.op = IF w = "OsQueue"
                                     THEN (IF put THEN "Send" ELSE "Receive")
                                     ELSE (IF put THEN "Set" ELSE "Get")]]
    /\ UNCHANGED << wmtx, stored, wres >>
    /\ UNCHANGED notWrappers

\* MutexGuard( OS_Mutex* ): os_mutex_get_p obtains the free mtx within
\* MaxWaitTimeMsec
WrapperMutexGuard(t) ==
    /\ wth[t].pc = "Guard"
    /\ wmtx[wth[t].obj] = NoThread
    /\ wmtx' = [wmtx EXCEPT ![wth[t].obj] = t]
    /\ wth' = [wth EXCEPT ![t].pc = "Kernel", ![t].locked = TRUE]
    /\ UNCHANGED << stored, wres, wrapCalls >>
    /\ UNCHANGED notWrappers

\* MutexGuard( OS_Mutex* ): mtx stayed with its holder for MaxWaitTimeMsec;
\* the constructor writes a message and the caller goes on without the mutex
WrapperMutexGuardTimeout(t) ==
    /\ wth[t].pc = "Guard"
    /\ wmtx[wth[t].obj] # NoThread
    /\ wth' = [wth EXCEPT ![t].pc = "Kernel", ![t].locked = FALSE]
    /\ UNCHANGED << wmtx, stored, wres, wrapCalls >>
    /\ UNCHANGED notWrappers

\* ~MutexGuard(): os_mutex_put( mutex ), whatever the constructor obtained:
\* the put of the holder frees mtx; the put of another thread is refused or,
\* under xSemaphoreGive without configASSERT, frees it
WrapperPut(t) ==
    LET w == wth[t].obj IN
    \/ wmtx' = [wmtx EXCEPT ![w] = NoThread]
    \/ wmtx[w] \notin {t, NoThread} /\ UNCHANGED wmtx

\* the call of t returns ret; the guard goes out of scope on the way
WrapperReturn(t, ret, found, expired) ==
    /\ WrapperPut(t)
    /\ wres' = [t |-> t, obj |-> wth[t].obj, op |-> wth[t].op, ret |-> ret,
                found |-> found, expired |-> expired]
    /\ wth' = [wth EXCEPT ![t] = IdleWrapThread]

\* the kernel object with what Receive takes out of it, and with what
\* xEventGroupWaitBits( *g, flags, option == OS_AND, option == OS_AND, wait )
\* leaves in it: the bits are cleared on exit under OS_AND only
Taken(t) ==
    [stored EXCEPT ![wth[t].obj] =
        IF wth[t].obj = "OsQueue" THEN @ - 1
        ELSE IF wth[t].option = OS_AND THEN 0 ELSE @]

\* os_event_group_get: EventBits_t bits = xEventGroupWaitBits( ... );
\* if (actual) *actual = bits; return OS_SUCCESS; and os_event_flags_get_ex
\* returns true for OS_SUCCESS.  os_queue_receive: xQueueReceive( ... ) ==
\* pdTRUE ? OS_SUCCESS : 1, for which os_queue_receive_ex returns false.
ReturnedWithoutIt(t) == wth[t].obj = "OsEventFlags"

\* os_queue_send_ex( queue, &message, wait_option ) into a queue that has
\* room, os_event_flags_set_ex( group, flagsToSet ): both return true
SendOrSet(t) ==
    /\ wth[t].pc = "Kernel"
    /\ wth[t].op \in {"Send", "Set"}
    /\ stored' = [stored EXCEPT ![wth[t].obj] =
                     IF wth[t].obj = "OsQueue" THEN @ + 1 ELSE 1]
    /\ WrapperReturn(t, TRUE, FALSE, FALSE)
    /\ UNCHANGED wrapCalls
    /\ UNCHANGED notWrappers

\* os_queue_receive_ex, os_event_flags_get_ex: a message is in the queue,
\* the requested flags are set: the call takes them and returns true at once
ReceiveOrGet(t) ==
    /\ wth[t].pc = "Kernel"
    /\ wth[t].op \in {"Receive", "Get"}
    /\ stored[wth[t].obj] > 0
    /\ stored' = Taken(t)
    /\ WrapperReturn(t, TRUE, TRUE, FALSE)
    /\ UNCHANGED wrapCalls
    /\ UNCHANGED notWrappers

\* the queue is empty, the flags are not set, and wait_option is OS_NO_WAIT:
\* the kernel call returns at once
ReceiveOrGetNoWait(t) ==
    /\ wth[t].pc = "Kernel"
    /\ wth[t].op \in {"Receive", "Get"}
    /\ stored[wth[t].obj] = 0
    /\ wth[t].wait = OS_NO_WAIT
    /\ WrapperReturn(t, ReturnedWithoutIt(t), FALSE, TRUE)
    /\ UNCHANGED << stored, wrapCalls >>
    /\ UNCHANGED notWrappers

\* the queue is empty, the flags are not set, and wait_option is not
\* OS_NO_WAIT: the thread blocks inside xQueueReceive or xEventGroupWaitBits,
\* the guard still in scope
ReceiveOrGetBlocks(t) ==
    /\ wth[t].pc = "Kernel"
    /\ wth[t].op \in {"Receive", "Get"}
    /\ stored[wth[t].obj] = 0
    /\ wth[t].wait # OS_NO_WAIT
    /\ wth' = [wth EXCEPT ![t].pc = "Wait"]
    /\ UNCHANGED << wmtx, stored, wres, wrapCalls >>
    /\ UNCHANGED notWrappers

\* a Send or a Set wakes the blocked thread, which takes what arrived
WrapperWake(t) ==
    /\ wth[t].pc = "Wait"
    /\ stored[wth[t].obj] > 0
    /\ stored' = Taken(t)
    /\ WrapperReturn(t, TRUE, TRUE, FALSE)
    /\ UNCHANGED wrapCalls
    /\ UNCHANGED notWrappers

\* a tick of the kernel, counted in every finite wait
WrapperTick ==
    /\ \E t \in Threads : /\ wth[t].pc = "Wait"
                          /\ wth[t].wait # OS_WAIT_FOREVER
                          /\ wth[t].waited < wth[t].wait
    /\ wth' = [t \in Threads |->
                 IF /\ wth[t].pc = "Wait" /\ wth[t].wait # OS_WAIT_FOREVER
                    /\ wth[t].waited < wth[t].wait
                    THEN [wth[t] EXCEPT !.waited = @ + 1] ELSE wth[t]]
    /\ UNCHANGED << wmtx, stored, wres, wrapCalls >>
    /\ UNCHANGED notWrappers

\* wait_option ticks went by with the queue empty, the flags not set
WrapperTimeout(t) ==
    /\ wth[t].pc = "Wait"
    /\ wth[t].wait # OS_WAIT_FOREVER
    /\ wth[t].waited = wth[t].wait
    /\ stored[wth[t].obj] = 0
    /\ WrapperReturn(t, ReturnedWithoutIt(t), FALSE, TRUE)
    /\ UNCHANGED << stored, wrapCalls >>
    /\ UNCHANGED notWrappers

NextWrappers ==
    \/ WrapperTick
    \/ \E t \in Threads :
          \/ WrapperCall(t)
          \/ WrapperMutexGuard(t) \/ WrapperMutexGuardTimeout(t)
          \/ SendOrSet(t)
          \/ ReceiveOrGet(t) \/ ReceiveOrGetNoWait(t) \/ ReceiveOrGetBlocks(t)
          \/ WrapperWake(t) \/ WrapperTimeout(t)

Init ==
    /\ InitWorker /\ InitChannel /\ InitSaver /\ InitGuard /\ InitCreate
    /\ InitWrappers /\ InitVerify

SpecWorker == Init /\ [][NextWorker]_vars

\* The scheduler runs a ready worker, every Step() returns, and the timer
\* ticks while the worker sleeps; a call a controller has begun returns.
SpecWorkerLive ==
    /\ Init /\ [][NextWorkerLive]_vars
    /\ WF_vars(ThreadEntry \/ StepUncounted)
    /\ WF_vars(Tick)
    /\ \A c \in Controllers :
          WF_vars(Signal(c) \/ ResumeTxThreadIfSuspended(c))

SpecVerify == Init /\ [][NextVerify]_vars

SpecChannel == Init /\ [][NextChannel]_vars

SpecPolling == Init /\ [][NextPolling]_vars

SpecGuard == Init /\ [][NextGuard]_vars

SpecSaver == Init /\ [][NextSaver]_vars

SpecActivity == Init /\ [][NextActivity]_vars

SpecCreate == Init /\ [][NextCreate]_vars

SpecWrappers == Init /\ [][NextWrappers]_vars

(***************************************************************************)
(* Types.                                                                  *)
(***************************************************************************)
TypeOKWorker ==
    /\ pc \in {"ClearThreadRunning", "WaitForStart", "MarkThreadRunning",
               "ClearThreadStopRequested", "ClearCleanupComplete", "Setup",
               "IsThreadStopRequested", "Step", "MarkThreadStepInDelay",
               "TxDelayMsec", "ClearThreadStepInDelay", "Cleanup",
               "ClearSetupComplete"}
    /\ threadRunning \in BOOLEAN /\ threadStepInDelay \in BOOLEAN
    /\ setupComplete \in BOOLEAN /\ cleanupComplete \in BOOLEAN
    /\ stopThreadRequested \in BOOLEAN
    /\ waitBeforeStep \in StepDelays
    /\ semaphore \in 0..MaxCalls
    /\ threadState \in {"ready", "sleep", "suspended"}
    /\ sleepTicks \in 0..(Uint16Modulus - 1)
    /\ (threadState = "sleep") = (sleepTicks > 0)
    /\ calls \in 0..MaxCalls

(***************************************************************************)
(* Claims about the worker.                                                *)
(***************************************************************************)
\* C1: Step() executes only after the worker has consumed a start signal for
\* the current cycle and before it has observed that cycle's stop request: no
\* Step() runs while the worker is idle or once Cleanup() has begun.
C1_StepOnlyBetweenStartAndStop ==
    /\ pc = "Step" => /\ startConsumed /\ threadRunning
                      /\ ~stopObserved /\ cleanupRuns = 0
    /\ stepTrace.ran => /\ stepTrace.started
                        /\ ~stepTrace.stopSeen /\ ~stepTrace.cleaning
    /\ stepRuns > 0 => startConsumed
    /\ pc = "WaitForStart" => stepRuns = 0

\* a Step() has run in a second cycle, after a first cycle was stopped
C1_Witness == cycles >= 1 /\ stepRuns >= 1 /\ stepTrace.ran /\ pc = "MarkThreadStepInDelay"

C10_StopEndsStepDelay == stopInDelay => threadState # "sleep"

\* controller c is not inside a call and its last call was op
Returned(c, op) == cpc[c] = "idle" /\ clast[c].op = op

\* C12: a Stop() called before any Start() never deadlocks: every step of
\* the call can be taken, so the call returns, and IsThreadStopped() reports
\* true afterwards.
C12_StopBeforeStartReturns ==
    \A c \in Controllers :
       /\ cpc[c] = "ResumeTxThreadIfSuspended" => ENABLED ResumeTxThreadIfSuspended(c)
       /\ (~startRequested /\ Returned(c, "Stop")) => (cret[c] /\ IsThreadStopped)

\* a Stop() has returned, the stop request is stored and no Start() was ever
\* called
C12_Witness ==
    \E c \in Controllers :
       /\ ~startRequested /\ Returned(c, "Stop") /\ cret[c]
       /\ stopThreadRequested /\ IsThreadStopped /\ pc = "WaitForStart"

\* C13: the start signal is binary: however many times Start() signals it
\* before the worker consumes it, at most one start is pending.
C13_StartSignalIsBinary == semaphore <= 1

C15_StartFailsWhenSignalFails ==
    \A c \in Controllers :
       (Returned(c, "Start") /\ ~clast[c].running) =>
          /\ clast[c].put # "none" => clast[c].hook = "true"
          /\ (clast[c].hook = "false" \/ clast[c].put = "failed") => ~cret[c]

\* controller c has returned from the helper kind
Verified(c, kind) == vfy[c].at = "none" /\ vfy[c].kind = kind

\* C11: for a running worker whose Step() always returns 0, a Stop() from
\* another thread followed by StopThreadAndWaitToVerify() with the budget of
\* the scenario returns true: the worker is seen stopped within the budget.
C11_StopVerifiedWithinBudget ==
    \A c \in Controllers :
       ( /\ Verified(c, "Stop") /\ vfy[c].afterStop
         /\ vfy[c].timeout = MaxTimeout
         /\ ~nonZeroStep ) => vfy[c].ret

\* C16: the helpers poll at the check interval and return true exactly when
\* a poll made before the timeout elapsed observed the expected state; they
\* return false when no poll did and when Start() or Stop() itself failed.
C16_VerifyReturnsWhatThePollsObserved ==
    \A c \in Controllers :
       LET v == vfy[c] IN
       /\ v.polls > 0 => v.elapsed >= (v.polls - 1) * CheckIntervalMs
       /\ (v.at = "none" /\ v.kind # "none") =>
             /\ v.ret = v.observed
             /\ v.observed => (v.callOk /\ v.polls > 0 /\ v.elapsed < v.timeout)
             /\ ~v.callOk => (~v.ret /\ v.polls = 0)

\* StopThreadAndWaitToVerify() has returned true from its second or a later
\* poll: the worker was still running at the first one
C16_Witness ==
    \E c \in Controllers :
       /\ Verified(c, "Stop") /\ vfy[c].ret /\ vfy[c].polls >= 2
       /\ IsThreadStopped

(***************************************************************************)
(* Claims about the value channel.                                         *)
(***************************************************************************)
\* the threads inside a section that a MutexGuard is meant to protect: the
\* store of SetData() and the copy of GetRecentData() / GetRecentDataWT()
InGuardedSection == {t \in Threads : th[t].pc \in {"Signal", "Copy"}}

\* C3: access to the value channel is fully serialized by its mutex: never are
\* two threads inside guarded sections of the same channel at once.
C3_GuardedSectionsExclusive == Cardinality(InGuardedSection) <= 1

\* thread t creates the OS object in this step
Creates(t, at) == th[t].pc = at /\ th'[t].pc # at

\* C4: every OS-backed resource of a primitive is created at most once, also
\* when several threads make the first use at once: no step creates an event
\* flag group or a mutex that has been created before.
C4_CreatedAtMostOnce ==
    [][\A t \in Threads :
          /\ (Creates(t, "CreateTxEventFlags") /\ eventFlagGroupCreated')
                => ~created.eventFlagGroup
          /\ (Creates(t, "CreateTxMutex") /\ mutexCreated')
                => ~created.mutex]_vars

\* C6: after k >= 1 SetData() calls with no GetNewData() in between, the next
\* GetNewData() by a permitted caller returns true with the value of the last
\* SetData().
C6_MailboxKeepsLastValue ==
    (res.op = "GetNewData" /\ res.expect # NoExpect)
        => (res.ret /\ res.val = res.expect)

C8_RecentDataIsLastSet ==
    (res.op = "GetRecentData" /\ res.ret /\ res.haveSet) => res.latest

\* C9: the stored timestamp of a value channel never decreases, so that no
\* GetRecentDataWT() returns an older timestamp than an earlier one.
C9_TimestampNeverDecreases == [][dataTimestamp' >= dataTimestamp]_vars

\* C17: with no owners set, one SetData( v ) and one GetNewData( out, w ),
\* begun in either order, with the SetData() returned before the wait of the
\* GetNewData() was over: the GetNewData() returns true with out == v.
C17_SetThenGetNewDataDelivers ==
    ( /\ chanCalls = 2
      /\ \A t \in Threads : th[t].pc = "idle"
      /\ res.op = "GetNewData"
      /\ lastSetValue # Indeterminate ) => (res.ret /\ res.val = lastSetValue)

\* C21: a SetData() that returns false, because the caller is not the setter
\* owner or because the initialization fails, leaves the stored value, the
\* stored timestamp and the data-available notification as they were: it has
\* stored nothing and has not destroyed a pending notification.
C21_FailedSetDataChangesNothing ==
    (res.op = "SetData" /\ ~res.ret) => (~res.stored /\ ~res.cleared)

\* C22: a GetNewData() or GetNewDataWT() that finds another thread designated
\* as the getter owner returns false at its owner test, for every waitTime
\* including OS_WAIT_FOREVER: such a call is never found past the test (in the
\* wait or after it), and its result is false with no tick waited.
C22_NonOwnerGetNewDataNeverWaits ==
    /\ \A t \in Threads : ~th[t].denied
    /\ (res.op \in NewDataOps /\ res.denied) => (~res.ret /\ res.waited = 0)

\* a GetNewDataWT( ..., OS_WAIT_FOREVER ) of a thread that is not the getter
\* owner has returned
C22_Witness ==
    res.op = "GetNewDataWT" /\ res.denied /\ res.arg = OS_WAIT_FOREVER

\* the getters that read without waiting for the data-available flag
RecentOps == {"GetRecentData", "GetRecentDataWT", "GetRecentDataIfNewerThan",
              "GetRecentDataIfNewerThanWT"}

\* C23: GetRecentData(), GetRecentDataWT(), GetRecentDataIfNewerThan() and
\* GetRecentDataIfNewerThanWT() never wait for the data-available flag and
\* never take it away: the call has not spent a tick waiting and has not
\* destroyed a notification that was pending.
C23_RecentGettersKeepNotification ==
    res.op \in RecentOps => (res.waited = 0 /\ ~res.cleared)

\* a call of one of the comparing getters returns in this step
NewerThanReturns ==
    \/ chanCalls' # chanCalls /\ res'.op \in NewerThanOps
    \/ \E t \in Threads : th[t].op \in NewerThanOps /\ th'[t].pc = "idle"

\* the comparing getter that returns in this step is at its copy, having
\* passed EnsureInitialized() and the getter owner test
NewerThanReturnsFromCopy ==
    \E t \in Threads :
       th[t].op \in NewerThanOps /\ th[t].pc = "Copy" /\ th'[t].pc = "idle"

\* the result is the strict comparison of the stored timestamp with
\* timestampMsec, and a true result of the copying getters carries the stored
\* value
StrictComparisonResult ==
    /\ res'.ret <=> (res'.arg < dataTimestamp)
    /\ (res'.ret /\ res'.op # "IsRecentDataNewerThanMsec") => res'.val = data

\* C24: GetRecentDataIfNewerThan( t ) returns false when t >= the stored
\* timestamp and true with the stored value when t < the stored timestamp;
\* IsRecentDataNewerThanMsec( t ) returns the same boolean.
C24_NewerThanIsStrictComparison ==
    [][NewerThanReturns => StrictComparisonResult]_vars

\* C24 for the calls it holds of: a comparing getter that passes
\* EnsureInitialized() and the getter owner test returns the strict comparison
\* (and the stored value when it is true); one that fails either returns false
\* whatever the timestamps are.
C24_PermittedNewerThanIsStrictComparison ==
    [][NewerThanReturns =>
          IF NewerThanReturnsFromCopy THEN StrictComparisonResult
                                      ELSE ~res'.ret]_vars

\* GetRecentDataIfNewerThanWT( t ) has returned true with the stored value and
\* its timestamp, which is later than t
C24_Witness ==
    /\ res.op = "GetRecentDataIfNewerThanWT"
    /\ res.ret /\ res.val \in Values /\ res.arg < res.outTs

\* thread t executes the creation it is at in this step
CreationStep(t, at) == th[t].pc = at /\ th'[t] # th[t]

\* no call is between the tests and the end of Initialize()
NoInitializeInProgress ==
    \A t \in Threads : th[t].pc \notin {"CreateTxEventFlags", "CreateTxMutex"}

\* C28: lazy initialization retries what failed and nothing else: a call
\* creates a resource only when that resource is not created, and between the
\* calls of Initialize() the channel is initialized exactly when its event
\* flag group and its mutex are both created.
C28_InitializationRetriesOnlyWhatFailed ==
    [][/\ \A t \in Threads :
             /\ CreationStep(t, "CreateTxEventFlags") => ~eventFlagGroupCreated
             /\ CreationStep(t, "CreateTxMutex") => ~mutexCreated
       /\ (NoInitializeInProgress' /\ chanCalls' > 0) =>
             (initialized' <=> (eventFlagGroupCreated' /\ mutexCreated'))]_vars

(***************************************************************************)
(* Claims about the MutexGuard.                                            *)
(***************************************************************************)
\* the constructor of the guard of t returns in this step
GuardConstructed(t) ==
    gd[t].pc \in {"Get", "Create"} /\ ~gd[t].dtor /\ gd'[t].pc = "Scope"

\* after this step t holds the mutex its guard is about
HoldsItsMutex(t) ==
    IF gd[t].source = "raw" THEN osMutex' = t
    ELSE wrapper'.handle # 0 /\ holder'[wrapper'.handle] = t

\* C25: a MutexGuard constructor that is given pSuccess sets it to true if
\* and only if the constructing thread holds the mutex when the constructor
\* returns, for an OS_Mutex and for a Mutex alike; the constructor returns
\* after a failed acquisition too.
C25_SuccessIffAcquired ==
    [][\A t \in Threads :
          GuardConstructed(t) => (gd'[t].success <=> HoldsItsMutex(t))]_vars

\* two guards over the same Mutex are in scope: one obtained it and reports
\* true, the other timed out and reports false
C25_Witness ==
    /\ \A t \in Threads : gd[t].pc = "Scope" /\ gd[t].source = "named"
    /\ \E t \in Threads : gd[t].success /\ holder[wrapper.handle] = t
    /\ \E t \in Threads : ~gd[t].success

\* C26: a MutexGuard that acquired its mutex releases that mutex when its
\* scope ends: a thread with no guard in scope holds no mutex.
C26_ScopeEndReleasesTheMutex ==
    \A t \in Threads :
       gd[t].pc = "idle" => (osMutex # t /\ \A h \in Handles : holder[h] # t)

(***************************************************************************)
(* Claims about the ErrorSaver, under SpecSaver.                           *)
(***************************************************************************)
\* the write that returned last
LastWrite == sres.op = "SetError"
\* it was the second of two writes in a row with the same error and target
SecondInARow == LastWrite /\ sres.first # NoCall
\* number of "new activity" signals of a write
Signals(signalled) == IF signalled THEN 1 ELSE 0

\* C5 as stated: a write whose target is the stored status returns true,
\* writes nothing and does not signal, and two writes in a row with the same
\* target signal exactly once
C5_SameStatusIsNoOp ==
    /\ (LastWrite /\ sres.same) =>
          (sres.ret /\ ~sres.wrote /\ ~sres.signalled)
    /\ SecondInARow =>
          Signals(sres.first.signalled) + Signals(sres.signalled) = 1

\* C5: a write that passes EnsureInitialized() and the setter-owner test and
\* whose target is the status stored when it tests it returns true, writes
\* nothing and does not signal; of two such writes in a row with the same
\* error and target the second is this no-op, and the first has signalled
\* exactly when the stored status differed from the target
C5_PermittedSameStatusIsNoOp ==
    /\ (LastWrite /\ sres.checked /\ sres.same) =>
          (sres.ret /\ ~sres.wrote /\ ~sres.signalled)
    /\ (SecondInARow /\ sres.checked /\ sres.first.checked) =>
          /\ sres.same /\ sres.ret /\ ~sres.wrote /\ ~sres.signalled
          /\ sres.first.signalled <=> ~sres.first.same

\* a second write in a row has returned true without a signal after a
\* first that changed the status and signalled
C5_Witness ==
    /\ SecondInARow /\ sres.checked /\ sres.first.checked
    /\ sres.first.signalled /\ ~sres.first.same
    /\ sres.same /\ sres.ret /\ ~sres.signalled
    /\ newActivity

\* the call that returned last was GetNewErrorActivity()
LastGet == sres.op = "GetNewErrorActivity"

\* C18: GetNewErrorActivity( waitTime ) returns true if and only if a signal
\* is pending when it is called or is raised within waitTime, so it returns
\* false only when the whole waitTime has passed, no signal raised within
\* waitTime is missed and the call does return; it takes the signal, so a
\* following call with no status change between blocks for its waitTime and
\* returns false.
C18_GetNewActivityTakesTheSignal ==
    /\ ~missed
    /\ \A t \in Threads : sth[t].pc # "Fault"
    /\ (LastGet /\ sres.ret) => (sres.seen /\ ~newActivity)
    /\ (LastGet /\ ~sres.ret) => sres.waited = sres.arg
    /\ (LastGet /\ sres.second) => (~sres.ret /\ sres.waited = sres.arg)

\* the setters of the tracker
Setters == {"SetError", "SetAllUnknown"}

SetterCallBy(t) ==
    /\ sth[t].pc = "idle" /\ saverCalls' = saverCalls + 1
    /\ \/ sth'[t].op \in Setters
       \/ sres'.by = t /\ sres'.op \in Setters

C27_DestructorTearsDownWhatWasCreated ==
    ~saverAlive => ~saverEventFlags

\* the call that returned last was an IsErrorSet( e ) that followed a write of
\* e, with no other call between them or during them
ReadAfterWrite == sres.op = "IsErrorSet" /\ sres.alone /\ sres.first # NoCall

\* C29: with no owner designated, IsErrorSet( e ) returns true after
\* SetError( e ) and false after a following ClearError( e ), whatever calls
\* came before.
C29_IsErrorSetFollowsSetAndClear ==
    (ReadAfterWrite /\ saverSetterOwnerThread = NoThread) =>
       /\ sres.first.target = "Set" => sres.ret
       /\ sres.first.target = "Cleared" => ~sres.ret

\* C29 for the calls it holds of: IsErrorSet( e ) returns true after a
\* SetError( e ) that returned true (it passed EnsureInitialized() and the
\* owner test, first.checked), and false after a ClearError( e ), whatever it
\* returned.
C29_IsErrorSetFollowsSuccessfulSetAndClear ==
    (ReadAfterWrite /\ saverSetterOwnerThread = NoThread) =>
       /\ (sres.first.target = "Set" /\ sres.first.checked) => sres.ret
       /\ sres.first.target = "Cleared" => ~sres.ret

\* IsErrorSet( e ) has returned false after a ClearError( e ) that changed the
\* status
C29_Witness ==
    /\ ReadAfterWrite /\ saverSetterOwnerThread = NoThread
    /\ sres.first.target = "Cleared" /\ sres.first.checked /\ ~sres.first.same
    /\ ~sres.ret /\ sres.checked

\* ---------------------------------------------------------------------------
\* Claims about Setup() over several cycles
\* ---------------------------------------------------------------------------

C31_DelayIsWhatStepReturned ==
    [][(pc = "TxDelayMsec" /\ pc' = "ClearThreadStepInDelay") =>
          IF waitBeforeStep = 0
             THEN threadState' # "sleep"
             ELSE threadState' = "sleep" /\ sleepTicks' = waitBeforeStep]_vars

\* ---------------------------------------------------------------------------
\* Claims about Stop() taking effect
\* ---------------------------------------------------------------------------

\* C32: every Stop() call made after a Start() call has returned true
\* eventually takes effect: once such a Stop() has requested the stop, the
\* worker (whose Step() always returns) is eventually out of its step loop,
\* past Cleanup() and stopped, waiting for a start signal.
C32_StopEventuallyTakesEffect ==
    (\E c \in Controllers : /\ cpc[c] = "ResumeTxThreadIfSuspended"
                            /\ clast[c].afterStart)
       ~> (pc = "WaitForStart" /\ IsThreadStopped)

\* StopThreadAndWaitToVerify() of controller c returns true in this step
StopVerified(c) ==
    /\ vfy[c].at = "poll" /\ vfy[c].kind = "Stop"
    /\ vfy'[c].at = "none" /\ vfy'[c].ret

\* the worker is down: it is past Cleanup(), at the top of its loop waiting
\* for a start signal, and no start signal is there for it to take
WorkerDown ==
    /\ pc \in {"ClearThreadRunning", "WaitForStart"}
    /\ IsThreadStopped
    /\ semaphore = 0

\* C33: whenever StopThreadAndWaitToVerify returns true the worker is actually
\* down: it has finished Cleanup(), is waiting for a start signal, and
\* executes no further Step() unless Start() is called after that return.
C33_StopVerifiedMeansWorkerDown ==
    [][\A c \in Controllers : StopVerified(c) => WorkerDown']_vars

\* ---------------------------------------------------------------------------
\* Claims about concurrent setters of the ErrorSaver
\* ---------------------------------------------------------------------------

\* thread t executes the guarded write of SetError() and its siblings, and
\* raises the signal, in this step
WritesAndSignals(t) == sth[t].pc = "Set" /\ sth'[t].pc = "idle"

\* C34: edge-triggering holds under concurrency: in any interleaving of
\* concurrent setter calls on one tracker, every "new activity" signal raised
\* belongs to a write that changed a stored status, so two threads that set
\* the same status of one entry together make one changing write and raise
\* one signal.
C34_EverySignalIsAChange ==
    [][\A t \in Threads : WritesAndSignals(t) => errorStatus' # errorStatus]_vars

\* ---------------------------------------------------------------------------
\* Claims about a MutexGuard whose acquisition failed
\* ---------------------------------------------------------------------------

\* the os_mutex_put of the destructor of t's guard runs in this step
GuardDestroyed(t) == gd[t].pc = "Put" /\ gd'[t].pc = "idle"

\* C35: a guard records whether its acquisition succeeded, and one whose
\* acquisition failed does not release the mutex when it is destroyed: the
\* destructor of a failed guard leaves every mutex with the thread that
\* holds it.
C35_FailedGuardReleasesNothing ==
    [][\A t \in Threads :
          (GuardDestroyed(t) /\ ~gd[t].success) =>
             (osMutex' = osMutex /\ holder' = holder)]_vars

\* ---------------------------------------------------------------------------
\* Claims about the getter owner of the ErrorSaver
\* ---------------------------------------------------------------------------

\* C36: when a getter owner is designated, only that thread can consume the
\* "new activity" notification: GetNewErrorActivity() called by any other
\* thread (on a tracker whose event flag group exists) returns false and
\* leaves a pending notification in place.
C36_NonOwnerCannotConsume ==
    (sres.op = "GetNewErrorActivity" /\ sres.denied /\ saverFlagGroupCreated) =>
       (~sres.ret /\ ~sres.seen)

\* ---------------------------------------------------------------------------
\* Claims about CreateBaseThread
\* ---------------------------------------------------------------------------

\* C37: CreateBaseThread creates the OS thread only if it is not already
\* created: a second call does not make a second OS thread running the same
\* worker loop, so at most one thread ever executes a given worker's Setup(),
\* Step() and Cleanup().
C37_OneThreadExecutesTheWorker ==
    \A j, k \in Tasks :
       (tasks[j] \in Executing /\ tasks[k] \in Executing) => j = k

\* C38: a thread blocked inside Receive (or Get), waiting on an empty queue
\* (on flags that are not set), does not hold the mtx of the wrapper
C38_WaiterHoldsNoMutex ==
    \A t \in Threads : wth[t].pc = "Wait" => wmtx[wth[t].obj] # t

\* C39: a Get whose wait ran out without the requested flags returned false,
\* and a Get that returned true found the requested flags set
C39_GetTrueOnlyWithFlags ==
    wres.op = "Get" => /\ wres.expired => ~wres.ret
                       /\ wres.ret => wres.found

\* C40: a helper called while the expected state already held (the worker
\* running for StartThreadAndWaitToVerify, stopped for
\* StopThreadAndWaitToVerify), and whose Start() or Stop() returned true,
\* returns true, whatever its timeout
C40_HeldAtCallMeansTrue ==
    \A c \in Controllers :
       (vfy[c].at = "none" /\ vfy[c].kind # "none" /\ vfy[c].held
           /\ vfy[c].callOk) => vfy[c].ret

====
